---- MODULE Spec2Model ----
(***************************************************************************)
(* Model of the risk-oracle repository:                                    *)
(*   - the RiskOracle contract (roles, tier store, permission check),      *)
(*   - the deterministic tier classifier of the backend,                   *)
(*   - the backend's batch reclassifier and its chain synchronizer.        *)
(*                                                                         *)
(* Time is counted in seconds since the JavaScript epoch (the code counts  *)
(* milliseconds; every instant of the model is a whole second, local time  *)
(* zone UTC).                                                              *)
(***************************************************************************)
EXTENDS Integers, Sequences, FiniteSets, TLC

VARIABLES owner, pendingOwner, updater, tiers, lastCall, emitted,
          wallet, now, classified,
          store, sync, sent, reclass,
          requestCounts, responses

oracleVars  == <<owner, pendingOwner, updater, tiers, lastCall, emitted>>
apiVars     == <<requestCounts, responses>>
backendVars == <<store, sync, sent, reclass, requestCounts, responses>>
storeVars   == <<wallet, now, classified, store, sync, sent, reclass,
                 requestCounts, responses>>
vars        == <<owner, pendingOwner, updater, tiers, lastCall, emitted,
                 wallet, now, classified, store, sync, sent, reclass,
                 requestCounts, responses>>

(***************************************************************************)
(* Bounds of the model                                                     *)
(***************************************************************************)
NumAccounts == 2
MaxTierArg  == 5
MaxBatchLen == 2

(***************************************************************************)
(* RiskOracle: addresses, constants                                        *)
(***************************************************************************)
ZERO_ADDRESS == 0
Deployer     == 1
Address      == 0 .. NumAccounts
Senders      == Address \ {ZERO_ADDRESS}
WalletArgs   == {ZERO_ADDRESS, 1, 2}
Uint8        == 0 .. (2^8 - 1)
TierArgs     == 0 .. MaxTierArg

ACTION_BASIC    == 0
ACTION_TRADE    == 1
ACTION_LEVERAGE == 2
ACTION_GOVERN   == 3
ACTION_WITHDRAW == 4

MAX_BATCH == 200
MAX_TIER  == 4

SeqsUpTo(S, n) == UNION {[1 .. k -> S] : k \in 0 .. n}

(* Argument lists of setTierBatch. The entries are drawn from: two tiers    *)
(* for wallet 1, one tier for wallet 2, the zero address, and a tier out   *)
(* of range. The arrays are equally long, or one is empty and the other has *)
(* one element.                                                             *)
BatchEntries ==
    {<<1, 3>>, <<1, 0>>, <<2, 3>>, <<ZERO_ADDRESS, 3>>, <<2, MAX_TIER + 1>>}

BatchArgs ==
    {<<[i \in DOMAIN es |-> es[i][1]], [i \in DOMAIN es |-> es[i][2]]>> :
        es \in SeqsUpTo(BatchEntries, MaxBatchLen)}
    \cup {<< <<e[1]>>, <<>> >> : e \in BatchEntries}
    \cup {<< <<>>, <<e[2]>> >> : e \in BatchEntries}

(* Argument lists at the size limit: n entries, every one valid, the        *)
(* wallets alternating and each wallet always with the same tier.           *)
FullBatch(n) ==
    <<[i \in 1 .. n |-> 1 + (i % 2)], [i \in 1 .. n |-> 2 + (i % 2)]>>

BatchArgsAtLimit == {FullBatch(MAX_BATCH), FullBatch(MAX_BATCH + 1)}

(***************************************************************************)
(* A call that reverts leaves the storage as it was and emits nothing;     *)
(* lastCall and emitted record the outcome of the most recent call.        *)
(***************************************************************************)
Call(fn, sender, err) == [fn |-> fn, sender |-> sender, err |-> err]

Revert(fn, sender, err) ==
    /\ lastCall' = Call(fn, sender, err)
    /\ emitted' = <<>>
    /\ UNCHANGED <<owner, pendingOwner, updater, tiers>>

Constructor ==
    /\ owner = Deployer
    /\ pendingOwner = ZERO_ADDRESS
    /\ updater \in Address
    /\ tiers = [a \in Address |-> 0]
    /\ lastCall = Call("constructor", owner, "none")
    /\ emitted = IF updater # ZERO_ADDRESS
                 THEN << <<"OwnershipTransferred", ZERO_ADDRESS, owner, 0>>,
                         <<"UpdaterChanged", ZERO_ADDRESS, updater, 0>> >>
                 ELSE << <<"OwnershipTransferred", ZERO_ADDRESS, owner, 0>> >>

(* Variant: the updater passes the owner check as well. *)
onlyOwner_orUpdater(sender) == sender = owner \/ sender = updater

(* Variant: the pending owner passes the owner check as well. *)
onlyOwner_orPending(sender) == sender = owner \/ sender = pendingOwner

onlyOwner(sender) == sender = owner

setUpdater(sender, newUpdater) ==
    IF ~onlyOwner(sender) THEN Revert("setUpdater", sender, "NotOwner")
    ELSE /\ updater' = newUpdater
         /\ emitted' = << <<"UpdaterChanged", updater, newUpdater, 0>> >>
         /\ lastCall' = Call("setUpdater", sender, "none")
         /\ UNCHANGED <<owner, pendingOwner, tiers>>

(* Variant: the caller is not compared with the owner. *)
proposeOwner_anyCaller(sender, candidate) ==
    IF candidate = ZERO_ADDRESS
    THEN Revert("proposeOwner", sender, "ZeroAddress")
    ELSE /\ pendingOwner' = candidate
         /\ emitted' =
              (IF pendingOwner # ZERO_ADDRESS
               THEN << <<"OwnershipTransferOverwritten", pendingOwner, candidate, 0>> >>
               ELSE <<>>)
              \o << <<"OwnershipTransferProposed", owner, candidate, 0>> >>
         /\ lastCall' = Call("proposeOwner", sender, "none")
         /\ UNCHANGED <<owner, updater, tiers>>

(* Variant: a pending proposal is replaced without OwnershipTransferOverwritten. *)
proposeOwner_silentOverwrite(sender, candidate) ==
    IF ~onlyOwner(sender) THEN Revert("proposeOwner", sender, "NotOwner")
    ELSE IF candidate = ZERO_ADDRESS
    THEN Revert("proposeOwner", sender, "ZeroAddress")
    ELSE /\ pendingOwner' = candidate
         /\ emitted' = << <<"OwnershipTransferProposed", owner, candidate, 0>> >>
         /\ lastCall' = Call("proposeOwner", sender, "none")
         /\ UNCHANGED <<owner, updater, tiers>>

proposeOwner(sender, candidate) ==
    IF ~onlyOwner(sender) THEN Revert("proposeOwner", sender, "NotOwner")
    ELSE IF candidate = ZERO_ADDRESS
    THEN Revert("proposeOwner", sender, "ZeroAddress")
    ELSE /\ pendingOwner' = candidate
         /\ emitted' =
              (IF pendingOwner # ZERO_ADDRESS
               THEN << <<"OwnershipTransferOverwritten", pendingOwner, candidate, 0>> >>
               ELSE <<>>)
              \o << <<"OwnershipTransferProposed", owner, candidate, 0>> >>
         /\ lastCall' = Call("proposeOwner", sender, "none")
         /\ UNCHANGED <<owner, updater, tiers>>

(* Variant: while nothing is proposed, every caller passes. *)
acceptOwnership_openWhenNoProposal(sender) ==
    IF pendingOwner # ZERO_ADDRESS /\ sender # pendingOwner
    THEN Revert("acceptOwnership", sender, "NotPendingOwner")
    ELSE /\ owner' = pendingOwner
         /\ pendingOwner' = ZERO_ADDRESS
         /\ emitted' = << <<"OwnershipTransferred", owner, pendingOwner, 0>> >>
         /\ lastCall' = Call("acceptOwnership", sender, "none")
         /\ UNCHANGED <<updater, tiers>>

(* Variant: the caller is not compared with the pending owner. *)
acceptOwnership_anyCaller(sender) ==
    /\ owner' = pendingOwner
    /\ pendingOwner' = ZERO_ADDRESS
    /\ emitted' = << <<"OwnershipTransferred", owner, pendingOwner, 0>> >>
    /\ lastCall' = Call("acceptOwnership", sender, "none")
    /\ UNCHANGED <<updater, tiers>>

(* Variant: the pending slot is not cleared on acceptance. *)
acceptOwnership_keepsPending(sender) ==
    IF sender # pendingOwner THEN Revert("acceptOwnership", sender, "NotPendingOwner")
    ELSE /\ owner' = pendingOwner
         /\ emitted' = << <<"OwnershipTransferred", owner, pendingOwner, 0>> >>
         /\ lastCall' = Call("acceptOwnership", sender, "none")
         /\ UNCHANGED <<pendingOwner, updater, tiers>>

acceptOwnership(sender) ==
    IF sender # pendingOwner THEN Revert("acceptOwnership", sender, "NotPendingOwner")
    ELSE /\ owner' = pendingOwner
         /\ pendingOwner' = ZERO_ADDRESS
         /\ emitted' = << <<"OwnershipTransferred", owner, pendingOwner, 0>> >>
         /\ lastCall' = Call("acceptOwnership", sender, "none")
         /\ UNCHANGED <<updater, tiers>>

(* Variant: the cancellation is reported but the proposal stays pending. *)
cancelOwnershipTransfer_keepsPending(sender) ==
    IF ~onlyOwner(sender) THEN Revert("cancelOwnershipTransfer", sender, "NotOwner")
    ELSE IF pendingOwner = ZERO_ADDRESS
    THEN Revert("cancelOwnershipTransfer", sender, "NoPendingTransfer")
    ELSE /\ emitted' = << <<"OwnershipTransferCancelled", pendingOwner, 0, 0>> >>
         /\ lastCall' = Call("cancelOwnershipTransfer", sender, "none")
         /\ UNCHANGED <<owner, pendingOwner, updater, tiers>>

cancelOwnershipTransfer(sender) ==
    IF ~onlyOwner(sender) THEN Revert("cancelOwnershipTransfer", sender, "NotOwner")
    ELSE IF pendingOwner = ZERO_ADDRESS
    THEN Revert("cancelOwnershipTransfer", sender, "NoPendingTransfer")
    ELSE /\ pendingOwner' = ZERO_ADDRESS
         /\ emitted' = << <<"OwnershipTransferCancelled", pendingOwner, 0, 0>> >>
         /\ lastCall' = Call("cancelOwnershipTransfer", sender, "none")
         /\ UNCHANGED <<owner, updater, tiers>>

(* Variant: the owner may write tiers as well. *)
onlyUpdater_orOwner(sender) == sender = updater \/ sender = owner

(* Variant: while no updater is installed, every caller passes. *)
onlyUpdater_openWhenUnset(sender) == updater = ZERO_ADDRESS \/ sender = updater

onlyUpdater(sender) == sender = updater

(* Variant: the tier argument is not compared with MAX_TIER. *)
setTier_noRangeCheck(sender, w, tier) ==
    IF ~onlyUpdater(sender) THEN Revert("setTier", sender, "NotUpdater")
    ELSE IF w = ZERO_ADDRESS THEN Revert("setTier", sender, "ZeroAddress")
    ELSE IF tiers[w] = tier THEN Revert("setTier", sender, "NoChange")
    ELSE /\ tiers' = [tiers EXCEPT ![w] = tier]
         /\ emitted' = << <<"TierUpdated", w, tiers[w], tier>> >>
         /\ lastCall' = Call("setTier", sender, "none")
         /\ UNCHANGED <<owner, pendingOwner, updater>>

(* Variant: a tier equal to the stored one is written and reported again. *)
setTier_acceptsNoChange(sender, w, tier) ==
    IF ~onlyUpdater(sender) THEN Revert("setTier", sender, "NotUpdater")
    ELSE IF w = ZERO_ADDRESS THEN Revert("setTier", sender, "ZeroAddress")
    ELSE IF tier > MAX_TIER THEN Revert("setTier", sender, "TierOutOfRange")
    ELSE /\ tiers' = [tiers EXCEPT ![w] = tier]
         /\ emitted' = << <<"TierUpdated", w, tiers[w], tier>> >>
         /\ lastCall' = Call("setTier", sender, "none")
         /\ UNCHANGED <<owner, pendingOwner, updater>>

setTier(sender, w, tier) ==
    IF ~onlyUpdater(sender) THEN Revert("setTier", sender, "NotUpdater")
    ELSE IF w = ZERO_ADDRESS THEN Revert("setTier", sender, "ZeroAddress")
    ELSE IF tier > MAX_TIER THEN Revert("setTier", sender, "TierOutOfRange")
    ELSE IF tiers[w] = tier THEN Revert("setTier", sender, "NoChange")
    ELSE /\ tiers' = [tiers EXCEPT ![w] = tier]
         /\ emitted' = << <<"TierUpdated", w, tiers[w], tier>> >>
         /\ lastCall' = Call("setTier", sender, "none")
         /\ UNCHANGED <<owner, pendingOwner, updater>>

(* One iteration of the loop of setTierBatch, on entry i, over the outcome  *)
(* acc of the iterations before it: the storage, the events emitted so far  *)
(* and the revert that ended the loop, if any.                              *)

(* Variant: the event reports the tier the wallet had before the call. *)
BatchStep_reportsTierBeforeCall(wallets, newTiers, i, acc) ==
    IF acc.err # "none" THEN acc
    ELSE IF wallets[i] = ZERO_ADDRESS THEN [acc EXCEPT !.err = "ZeroAddress"]
    ELSE IF newTiers[i] > MAX_TIER THEN [acc EXCEPT !.err = "TierOutOfRange"]
    ELSE IF acc.tiers[wallets[i]] # newTiers[i]
    THEN [err     |-> "none",
          tiers   |-> [acc.tiers EXCEPT ![wallets[i]] = newTiers[i]],
          emitted |-> Append(acc.emitted,
                             <<"TierUpdated", wallets[i],
                               tiers[wallets[i]], newTiers[i]>>)]
    ELSE acc

(* Variant: an entry whose wallet occurred earlier in the batch is skipped. *)
BatchStep_keepsFirst(wallets, newTiers, i, acc) ==
    IF acc.err # "none" THEN acc
    ELSE IF wallets[i] = ZERO_ADDRESS THEN [acc EXCEPT !.err = "ZeroAddress"]
    ELSE IF newTiers[i] > MAX_TIER THEN [acc EXCEPT !.err = "TierOutOfRange"]
    ELSE IF /\ acc.tiers[wallets[i]] # newTiers[i]
            /\ \A j \in 1 .. (i - 1) : wallets[j] # wallets[i]
    THEN [err     |-> "none",
          tiers   |-> [acc.tiers EXCEPT ![wallets[i]] = newTiers[i]],
          emitted |-> Append(acc.emitted,
                             <<"TierUpdated", wallets[i],
                               acc.tiers[wallets[i]], newTiers[i]>>)]
    ELSE acc

(* Variant: an entry equal to the stored tier is written and reported too. *)
BatchStep_writesEqual(wallets, newTiers, i, acc) ==
    IF acc.err # "none" THEN acc
    ELSE IF wallets[i] = ZERO_ADDRESS THEN [acc EXCEPT !.err = "ZeroAddress"]
    ELSE IF newTiers[i] > MAX_TIER THEN [acc EXCEPT !.err = "TierOutOfRange"]
    ELSE [err     |-> "none",
          tiers   |-> [acc.tiers EXCEPT ![wallets[i]] = newTiers[i]],
          emitted |-> Append(acc.emitted,
                             <<"TierUpdated", wallets[i],
                               acc.tiers[wallets[i]], newTiers[i]>>)]

BatchStep(wallets, newTiers, i, acc) ==
    IF acc.err # "none" THEN acc
    ELSE IF wallets[i] = ZERO_ADDRESS THEN [acc EXCEPT !.err = "ZeroAddress"]
    ELSE IF newTiers[i] > MAX_TIER THEN [acc EXCEPT !.err = "TierOutOfRange"]
    ELSE IF acc.tiers[wallets[i]] # newTiers[i]
    THEN [err     |-> "none",
          tiers   |-> [acc.tiers EXCEPT ![wallets[i]] = newTiers[i]],
          emitted |-> Append(acc.emitted,
                             <<"TierUpdated", wallets[i],
                               acc.tiers[wallets[i]], newTiers[i]>>)]
    ELSE acc

(* The iterations lo .. hi in order (the range is halved so that a batch of *)
(* MAX_BATCH entries is evaluated at a small depth).                        *)
RECURSIVE BatchRange(_, _, _, _, _)
BatchRange(wallets, newTiers, lo, hi, acc) ==
    IF lo > hi THEN acc
    ELSE IF lo = hi THEN BatchStep(wallets, newTiers, lo, acc)
    ELSE LET mid   == (lo + hi) \div 2
             first == BatchRange(wallets, newTiers, lo, mid, acc)
         IN  IF first.err # "none" THEN first
             ELSE BatchRange(wallets, newTiers, mid + 1, hi, first)

(* The loop of setTierBatch from entry i on, over the storage t and the     *)
(* events ev emitted so far; err names the revert that ends the loop.       *)
BatchLoop(wallets, newTiers, i, t, ev) ==
    BatchRange(wallets, newTiers, i, Len(wallets),
               [err |-> "none", tiers |-> t, emitted |-> ev])

(* What a setTierBatch call does in the current state: the revert that     *)
(* ends it, or the storage and the events it leaves.                        *)

(* Variant: a batch of MAX_BATCH entries is already too large. *)
setTierBatchOutcome_limitExclusive(sender, wallets, newTiers) ==
    IF ~onlyUpdater(sender)
    THEN [err |-> "NotUpdater", tiers |-> tiers, emitted |-> <<>>]
    ELSE IF Len(wallets) # Len(newTiers)
    THEN [err |-> "LengthMismatch", tiers |-> tiers, emitted |-> <<>>]
    ELSE IF Len(wallets) >= MAX_BATCH
    THEN [err |-> "BatchTooLarge", tiers |-> tiers, emitted |-> <<>>]
    ELSE BatchLoop(wallets, newTiers, 1, tiers, <<>>)

setTierBatchOutcome(sender, wallets, newTiers) ==
    IF ~onlyUpdater(sender)
    THEN [err |-> "NotUpdater", tiers |-> tiers, emitted |-> <<>>]
    ELSE IF Len(wallets) # Len(newTiers)
    THEN [err |-> "LengthMismatch", tiers |-> tiers, emitted |-> <<>>]
    ELSE IF Len(wallets) > MAX_BATCH
    THEN [err |-> "BatchTooLarge", tiers |-> tiers, emitted |-> <<>>]
    ELSE BatchLoop(wallets, newTiers, 1, tiers, <<>>)

setTierBatch(sender, wallets, newTiers) ==
    LET r == setTierBatchOutcome(sender, wallets, newTiers)
    IN  IF r.err # "none" THEN Revert("setTierBatch", sender, r.err)
        ELSE /\ tiers' = r.tiers
             /\ emitted' = r.emitted
             /\ lastCall' = Call("setTierBatch", sender, "none")
             /\ UNCHANGED <<owner, pendingOwner, updater>>

(* Variant: a wallet whose tier is already 0 is cleared and reported again. *)
deleteTier_acceptsUnset(sender, w) ==
    IF ~onlyUpdater(sender) THEN Revert("deleteTier", sender, "NotUpdater")
    ELSE IF w = ZERO_ADDRESS THEN Revert("deleteTier", sender, "ZeroAddress")
    ELSE /\ tiers' = [tiers EXCEPT ![w] = 0]
         /\ emitted' = << <<"TierDeleted", w, tiers[w], 0>> >>
         /\ lastCall' = Call("deleteTier", sender, "none")
         /\ UNCHANGED <<owner, pendingOwner, updater>>

deleteTier(sender, w) ==
    IF ~onlyUpdater(sender) THEN Revert("deleteTier", sender, "NotUpdater")
    ELSE IF w = ZERO_ADDRESS THEN Revert("deleteTier", sender, "ZeroAddress")
    ELSE IF tiers[w] = 0 THEN Revert("deleteTier", sender, "TierNotSet")
    ELSE /\ tiers' = [tiers EXCEPT ![w] = 0]
         /\ emitted' = << <<"TierDeleted", w, tiers[w], 0>> >>
         /\ lastCall' = Call("deleteTier", sender, "none")
         /\ UNCHANGED <<owner, pendingOwner, updater>>

getTier(w) == tiers[w]

(* Variant: ACTION_BASIC is open to every wallet. *)
can_basicOpen(w, actionType) ==
    LET tier == tiers[w]
    IN  IF actionType = ACTION_BASIC THEN TRUE
        ELSE IF actionType = ACTION_TRADE THEN tier >= 2
        ELSE IF actionType = ACTION_LEVERAGE THEN tier >= 3
        ELSE IF actionType = ACTION_GOVERN THEN tier >= 3
        ELSE IF actionType = ACTION_WITHDRAW THEN tier >= 2
        ELSE FALSE

(* Variant: an unknown action type is granted to the highest tier. *)
can_failOpen(w, actionType) ==
    LET tier == tiers[w]
    IN  IF actionType = ACTION_BASIC THEN tier >= 2
        ELSE IF actionType = ACTION_TRADE THEN tier >= 2
        ELSE IF actionType = ACTION_LEVERAGE THEN tier >= 3
        ELSE IF actionType = ACTION_GOVERN THEN tier >= 3
        ELSE IF actionType = ACTION_WITHDRAW THEN tier >= 2
        ELSE tier >= MAX_TIER

(* Variant: withdrawals are open from tier 1. *)
can_withdrawFromTier1(w, actionType) ==
    LET tier == tiers[w]
    IN  IF actionType = ACTION_BASIC THEN tier >= 2
        ELSE IF actionType = ACTION_TRADE THEN tier >= 2
        ELSE IF actionType = ACTION_LEVERAGE THEN tier >= 3
        ELSE IF actionType = ACTION_GOVERN THEN tier >= 3
        ELSE IF actionType = ACTION_WITHDRAW THEN tier >= 1
        ELSE FALSE

can(w, actionType) ==
    LET tier == tiers[w]
    IN  IF actionType = ACTION_BASIC THEN tier >= 2
        ELSE IF actionType = ACTION_TRADE THEN tier >= 2
        ELSE IF actionType = ACTION_LEVERAGE THEN tier >= 3
        ELSE IF actionType = ACTION_GOVERN THEN tier >= 3
        ELSE IF actionType = ACTION_WITHDRAW THEN tier >= 2
        ELSE FALSE

(***************************************************************************)
(* The contract's transactions                                             *)
(***************************************************************************)
SetUpdater == \E s \in Senders, a \in Address :
                 setUpdater(s, a) /\ UNCHANGED storeVars
ProposeOwner == \E s \in Senders, a \in Address :
                 proposeOwner(s, a) /\ UNCHANGED storeVars
AcceptOwnership == \E s \in Senders :
                 acceptOwnership(s) /\ UNCHANGED storeVars
CancelOwnershipTransfer == \E s \in Senders :
                 cancelOwnershipTransfer(s) /\ UNCHANGED storeVars
(* The updater check runs before any argument is read, so a call it rejects  *)
(* is drawn with one representative argument list.                          *)
SetTier == \E s \in Senders :
              /\ IF onlyUpdater(s)
                 THEN \E w \in WalletArgs, t \in TierArgs : setTier(s, w, t)
                 ELSE setTier(s, ZERO_ADDRESS, 0)
              /\ UNCHANGED storeVars
SetTierBatch == \E s \in Senders :
              /\ IF onlyUpdater(s)
                 THEN \E b \in BatchArgs : setTierBatch(s, b[1], b[2])
                 ELSE setTierBatch(s, <<>>, <<>>)
              /\ UNCHANGED storeVars
DeleteTier == \E s \in Senders :
              /\ IF onlyUpdater(s)
                 THEN \E w \in WalletArgs : deleteTier(s, w)
                 ELSE deleteTier(s, ZERO_ADDRESS)
              /\ UNCHANGED storeVars
SetTierBatchAtLimit == \E s \in Senders :
              /\ IF onlyUpdater(s)
                 THEN \E b \in BatchArgsAtLimit : setTierBatch(s, b[1], b[2])
                 ELSE setTierBatch(s, <<>>, <<>>)
              /\ UNCHANGED storeVars

(***************************************************************************)
(* Tier classifier (backend)                                               *)
(***************************************************************************)
ONE_DAY      == 24 * 60 * 60
ONE_WEEK     == 7 * ONE_DAY
TWO_WEEKS    == 14 * ONE_DAY
THREE_MONTHS == 90 * ONE_DAY

FLIP_THRESHOLD    == 5
(* SUSPICIOUS_RATIO = 0.3, kept as the fraction 3/10: for the counts of the *)
(* model the floating-point quotient s/n exceeds the double 0.3 exactly     *)
(* when 10*s > 3*n.                                                         *)
SUSPICIOUS_RATIO_NUM == 3
SUSPICIOUS_RATIO_DEN == 10
MIN_TX_FOR_TIER_2 == 3
MIN_TX_FOR_TIER_3 == 10
MIN_TX_FOR_TIER_4 == 30

Tx(ts, flip, susp) == [timestamp |-> ts, isFlip |-> flip, isSuspicious |-> susp]

(* Calendar of Date (local time zone UTC): the year of an instant, the      *)
(* start of that year, and the weekday of its 4 January (0 = Sunday).       *)
IsLeapYear(y) == (y % 4 = 0 /\ y % 100 # 0) \/ y % 400 = 0
DaysInYear(y) == IF IsLeapYear(y) THEN 366 ELSE 365

RECURSIVE YearFrom(_, _, _)
YearFrom(t, y, start) ==
    IF t < start + DaysInYear(y) * ONE_DAY
    THEN [year |-> y, start |-> start]
    ELSE YearFrom(t, y + 1, start + DaysInYear(y) * ONE_DAY)

getFullYear(t) == YearFrom(t, 1970, 0)

(* 1 January 1970 is a Thursday (4).                                        *)
getDay(t) == (4 + t \div ONE_DAY) % 7

weekKey(t) ==
    LET y         == getFullYear(t)
        jan4      == y.start + 3 * ONE_DAY
        dayOfYear == (t - y.start) \div ONE_DAY + 1
        weekNum   == (dayOfYear + getDay(jan4) + 6) \div 7
    IN  <<y.year, weekNum>>

(* Variant: the loop stops one window early. *)
detectImpulsiveTrading_skipsLastWindow(transactions) ==
    IF Len(transactions) < 5 THEN FALSE
    ELSE \E i \in 0 .. Len(transactions) - 6 :
            LET windowStart == transactions[i + 1].timestamp
                windowEnd   == transactions[i + 5].timestamp
            IN  windowEnd - windowStart < 60 * 60

detectImpulsiveTrading(transactions) ==
    IF Len(transactions) < 5 THEN FALSE
    ELSE \E i \in 0 .. Len(transactions) - 5 :
            LET windowStart == transactions[i + 1].timestamp
                windowEnd   == transactions[i + 5].timestamp
            IN  windowEnd - windowStart < 60 * 60

(* Variant: the spread is taken over the whole history, not the window. *)
checkConsistentActivity_wholeHistory(transactions, periodMs, dateNow) ==
    IF Len(transactions) < 3 THEN FALSE
    ELSE LET first  == transactions[1].timestamp
             last   == transactions[Len(transactions)].timestamp
             spread == last - first
         IN  2 * spread >= periodMs

checkConsistentActivity(transactions, periodMs, dateNow) ==
    IF Len(transactions) < 3 THEN FALSE
    ELSE LET periodStart == dateNow - periodMs
             recentTxs   == SelectSeq(transactions,
                                      LAMBDA tx : tx.timestamp >= periodStart)
         IN  IF Len(recentTxs) < 3 THEN FALSE
             ELSE LET first  == recentTxs[1].timestamp
                      last   == recentTxs[Len(recentTxs)].timestamp
                      spread == last - first
                  IN  2 * spread >= periodMs

checkNotBursty(transactions, periodMs, dateNow) ==
    LET periodStart == dateNow - periodMs
        recentTxs   == SelectSeq(transactions,
                                 LAMBDA tx : tx.timestamp >= periodStart)
        weeks       == {weekKey(recentTxs[i].timestamp) : i \in DOMAIN recentTxs}
    IN  Cardinality(weeks) >= 4

(* Variant: a suspicious ratio of exactly 0.3 restricts as well. *)
isRestricted_ratioInclusive(txs) ==
    LET txCount         == Len(txs)
        flipCount       == Len(SelectSeq(txs, LAMBDA tx : tx.isFlip))
        suspiciousCount == Len(SelectSeq(txs, LAMBDA tx : tx.isSuspicious))
    IN  \/ flipCount >= FLIP_THRESHOLD
        \/ suspiciousCount * SUSPICIOUS_RATIO_DEN >= SUSPICIOUS_RATIO_NUM * txCount
        \/ detectImpulsiveTrading(txs)

isRestricted(txs) ==
    LET txCount         == Len(txs)
        flipCount       == Len(SelectSeq(txs, LAMBDA tx : tx.isFlip))
        suspiciousCount == Len(SelectSeq(txs, LAMBDA tx : tx.isSuspicious))
    IN  \/ flipCount >= FLIP_THRESHOLD
        \/ suspiciousCount * SUSPICIOUS_RATIO_DEN > SUSPICIOUS_RATIO_NUM * txCount
        \/ detectImpulsiveTrading(txs)

(* Variant: the transaction count is compared strictly. *)
meetsTier2_strictCount(txCount, accountAge) ==
    txCount > MIN_TX_FOR_TIER_2 /\ accountAge >= ONE_WEEK

meetsTier2(txCount, accountAge) ==
    txCount >= MIN_TX_FOR_TIER_2 /\ accountAge >= ONE_WEEK

meetsTier3(txCount, accountAge) ==
    txCount >= MIN_TX_FOR_TIER_3 /\ accountAge >= TWO_WEEKS

meetsTier4(txCount, accountAge) ==
    txCount >= MIN_TX_FOR_TIER_4 /\ accountAge >= THREE_MONTHS

(* Variant: a wallet missing from the store yields no tier (-1). *)
classifyWallet_unknownHasNoTier(w, dateNow) ==
    IF ~w.exists THEN -1
    ELSE LET txs        == w.transactions
             txCount    == Len(txs)
             accountAge == dateNow[1] - w.firstSeen
         IN  IF txCount = 0 THEN 0
             ELSE IF isRestricted(txs) THEN 1
             ELSE IF meetsTier2(txCount, accountAge)
             THEN IF meetsTier3(txCount, accountAge)
                     /\ checkConsistentActivity(txs, TWO_WEEKS, dateNow[2])
                  THEN IF meetsTier4(txCount, accountAge)
                          /\ checkConsistentActivity(txs, THREE_MONTHS, dateNow[3])
                          /\ checkNotBursty(txs, THREE_MONTHS, dateNow[4])
                       THEN 4
                       ELSE 3
                  ELSE 2
             ELSE 0

(* classifyWallet reads the clock four times: for the account age, in the   *)
(* two consistency checks and in the burst check; dateNow[k] is the k-th    *)
(* value read.                                                              *)
classifyWallet(w, dateNow) ==
    IF ~w.exists THEN 0
    ELSE LET txs        == w.transactions
             txCount    == Len(txs)
             accountAge == dateNow[1] - w.firstSeen
         IN  IF txCount = 0 THEN 0
             ELSE IF isRestricted(txs) THEN 1
             ELSE IF meetsTier2(txCount, accountAge)
             THEN IF meetsTier3(txCount, accountAge)
                     /\ checkConsistentActivity(txs, TWO_WEEKS, dateNow[2])
                  THEN IF meetsTier4(txCount, accountAge)
                          /\ checkConsistentActivity(txs, THREE_MONTHS, dateNow[3])
                          /\ checkNotBursty(txs, THREE_MONTHS, dateNow[4])
                       THEN 4
                       ELSE 3
                  ELSE 2
             ELSE 0

ClassifyWallet ==
    /\ classified' = [done |-> TRUE,
                      tier |-> classifyWallet(wallet, <<now, now, now, now>>)]
    /\ UNCHANGED <<wallet, now>>
    /\ UNCHANGED oracleVars
    /\ UNCHANGED backendVars

(***************************************************************************)
(* Transaction histories the classifier is applied to: a run of n           *)
(* transactions one gap apart, followed one gap later by a burst of         *)
(* transactions a minute apart; the first flips are flip trades and the     *)
(* last susp are suspicious.                                                *)
(***************************************************************************)
MaxTx    == 30
MaxBurst == 5

TxCounts == {0, 1, 2, 3, 9, 10, MaxTx - 1, MaxTx}
Bursts   == {0, MaxBurst - 1, MaxBurst}
Gaps     == {15 * 60 - 1, 15 * 60, ONE_DAY, 3 * ONE_DAY, ONE_WEEK}
Flips    == {0, FLIP_THRESHOLD - 1, FLIP_THRESHOLD}
Suspects == {0, 1, 3}
Idles    == {0, 1, ONE_WEEK, ONE_WEEK + 1, 13 * ONE_DAY}
Ages     == {0, 6 * ONE_DAY, ONE_WEEK - 1, ONE_WEEK, TWO_WEEKS - 1, TWO_WEEKS,
             THREE_MONTHS - 1, THREE_MONTHS}

TimestampOf(i, n, gap) ==
    IF i <= n THEN (i - 1) * gap
    ELSE (IF n = 0 THEN 0 ELSE n * gap) + (i - n - 1) * 60

History(n, gap, burst, flips, susp) ==
    [i \in 1 .. (n + burst) |->
        Tx(TimestampOf(i, n, gap), i <= flips, i > n + burst - susp)]

LastTimestamp(txs) == IF Len(txs) = 0 THEN 0 ELSE txs[Len(txs)].timestamp

StoreLoaded ==
    \/ /\ wallet = [exists |-> FALSE, firstSeen |-> 0, transactions |-> <<>>]
       /\ now \in Idles
       /\ classified = [done |-> FALSE, tier |-> 0]
    \/ \E n \in TxCounts, gap \in Gaps, burst \in Bursts,
          flips \in Flips, susp \in Suspects, idle \in Idles, age \in Ages :
          /\ flips <= n + burst
          /\ susp <= n + burst
          /\ n = 0 => gap = ONE_DAY
          /\ LET txs == History(n, gap, burst, flips, susp)
             IN  /\ now = LastTimestamp(txs) + idle
                 /\ wallet = [exists |-> TRUE, firstSeen |-> now - age,
                              transactions |-> txs]
          /\ classified = [done |-> FALSE, tier |-> 0]

(* The API server has answered no request. *)
ApiIdle ==
    /\ requestCounts = <<>>
    /\ responses = <<>>

(* No reclassifier or synchronizer run has been started: the Wallet table   *)
(* of the backend is not read.                                              *)
BackendIdle ==
    /\ ApiIdle
    /\ store = <<>>
    /\ sync = [pc |-> "idle", signer |-> ZERO_ADDRESS, wallets |-> <<>>, i |-> 0,
               results |-> <<>>, batches |-> <<>>, k |-> 0]
    /\ sent = <<>>
    /\ reclass = <<>>

OracleIdle ==
    /\ owner = Deployer
    /\ pendingOwner = ZERO_ADDRESS
    /\ updater = ZERO_ADDRESS
    /\ tiers = [a \in Address |-> 0]
    /\ lastCall = Call("constructor", owner, "none")
    /\ emitted = << <<"OwnershipTransferred", ZERO_ADDRESS, owner, 0>> >>

InitClassifier == OracleIdle /\ StoreLoaded /\ BackendIdle

NextClassifier == ClassifyWallet

SpecClassifier == InitClassifier /\ [][NextClassifier]_vars

(***************************************************************************)
(* Histories laid out on the calendar: four visits, on the days             *)
(* days[1] < .. < days[4] since 1 January 1970, of perDay transactions an   *)
(* hour apart each.                                                         *)
(***************************************************************************)
FirstDays    == (0 .. 6) \cup {361}
DayGaps      == {1, 6, 7, 44, 45}
VisitsPerDay == {7, 8}
VisitIdles   == {0, ONE_DAY}
VisitAges    == {THREE_MONTHS - 1, THREE_MONTHS}

VisitDays(first, g1, g2, g3) ==
    <<first, first + g1, first + g1 + g2, first + g1 + g2 + g3>>

VisitHistory(days, perDay) ==
    [i \in 1 .. (4 * perDay) |->
        Tx(days[(i - 1) \div perDay + 1] * ONE_DAY + ((i - 1) % perDay) * 60 * 60,
           FALSE, FALSE)]

StoreLoadedCalendar ==
    \E first \in FirstDays, g1 \in DayGaps, g2 \in DayGaps, g3 \in DayGaps,
       perDay \in VisitsPerDay, idle \in VisitIdles, age \in VisitAges :
       /\ LET txs == VisitHistory(VisitDays(first, g1, g2, g3), perDay)
          IN  /\ now = LastTimestamp(txs) + idle
              /\ wallet = [exists |-> TRUE, firstSeen |-> now - age,
                           transactions |-> txs]
       /\ classified = [done |-> FALSE, tier |-> 0]

InitCalendar == OracleIdle /\ StoreLoadedCalendar /\ BackendIdle

SpecCalendar == InitCalendar /\ [][NextClassifier]_vars

(***************************************************************************)
(* A wallet over time: the clock moves on while the wallet stays silent,    *)
(* further transactions are stored with the timestamp of the moment, and    *)
(* the wallet is classified again.  classified keeps the result of the      *)
(* latest classification.                                                   *)
(***************************************************************************)
MaxAppended == 1

AgingCounts   == {3, MIN_TX_FOR_TIER_3, MaxTx}
AgingGaps     == {ONE_DAY, 3 * ONE_DAY}
AgingFlips    == {0, FLIP_THRESHOLD}
AgingSuspects == {0, 1}
AgingAges     == {TWO_WEEKS, THREE_MONTHS}
DormantSpans  == {ONE_DAY, TWO_WEEKS + 1, 180 * ONE_DAY}

StoreLoadedAging ==
    \E n \in AgingCounts, gap \in AgingGaps, flips \in AgingFlips,
       susp \in AgingSuspects, age \in AgingAges :
       /\ LET txs == History(n, gap, 0, flips, susp)
          IN  /\ now = LastTimestamp(txs)
              /\ wallet = [exists |-> TRUE, firstSeen |-> now - age,
                           transactions |-> txs]
       /\ classified = [done |-> FALSE, tier |-> 0]

(* Time passes: Date.now() reads a later instant, the store is untouched. *)
AdvanceClock ==
    /\ \E idle \in DormantSpans :
          /\ now' = LastTimestamp(wallet.transactions) + idle
          /\ now' > now
    /\ UNCHANGED <<wallet, classified>>
    /\ UNCHANGED oracleVars
    /\ UNCHANGED backendVars

(* prisma.transaction.create for the wallet, timestamped with the moment,   *)
(* which is later than every stored transaction.                            *)
AppendTransaction ==
    /\ wallet.exists
    /\ now > LastTimestamp(wallet.transactions)
    /\ \E n \in AgingCounts :
          Len(wallet.transactions) \in n .. (n + MaxAppended - 1)
    /\ \E flip \in BOOLEAN, susp \in BOOLEAN :
          wallet' = [wallet EXCEPT
                        !.transactions = Append(@, Tx(now, flip, susp))]
    /\ UNCHANGED <<now, classified>>
    /\ UNCHANGED oracleVars
    /\ UNCHANGED backendVars

InitAging == OracleIdle /\ StoreLoadedAging /\ BackendIdle

NextDormant == ClassifyWallet \/ AdvanceClock

SpecDormant == InitAging /\ [][NextDormant]_vars

NextAging == ClassifyWallet \/ AdvanceClock \/ AppendTransaction

SpecAging == InitAging /\ [][NextAging]_vars

(***************************************************************************)
(* The clock moves on during a classification.  classifyWallet reads        *)
(* Date.now() for the account age, and checkConsistentActivity (twice) and  *)
(* checkNotBursty read it again, each for itself; the four values read are  *)
(* non-decreasing and lie between the start of the call and its end, at     *)
(* most MaxClockTicks later.  The histories have 29 or 30 transactions      *)
(* around EdgeInstant: the first one 90 days before it or a little later,   *)
(* a daily run from 44 to 19 days before it, one transaction 14 days before *)
(* it or a little later, and two more 6 and 5 days before it.               *)
(***************************************************************************)
MaxClockTicks == 1

EdgeInstant == 100 * ONE_DAY
EdgeOffsets == {0, 1, ONE_DAY}
EdgeSlacks  == {0, ONE_DAY}
EdgeRuns    == {25, 26}
EdgeStarts  == {EdgeInstant - 1, EdgeInstant}

EdgeHistory(e90, e14, run) ==
    << Tx(EdgeInstant - THREE_MONTHS + e90, FALSE, FALSE) >>
    \o [i \in 1 .. run |-> Tx(EdgeInstant - (45 - i) * ONE_DAY, FALSE, FALSE)]
    \o << Tx(EdgeInstant - TWO_WEEKS + e14, FALSE, FALSE),
          Tx(EdgeInstant - 6 * ONE_DAY, FALSE, FALSE),
          Tx(EdgeInstant - 5 * ONE_DAY, FALSE, FALSE) >>

StoreLoadedAtEdge ==
    \E e90 \in EdgeOffsets, e14 \in EdgeOffsets, run \in EdgeRuns,
       slack \in EdgeSlacks :
       /\ wallet = [exists |-> TRUE,
                    firstSeen |-> EdgeInstant - THREE_MONTHS - slack,
                    transactions |-> EdgeHistory(e90, e14, run)]
       /\ now \in EdgeStarts
       /\ classified = [done |-> FALSE, tier |-> 0]

(* The values Date.now() returns to the four reads of one call that starts  *)
(* at the instant start.                                                    *)
ClockReads(start) ==
    {d \in [1 .. 4 -> start .. (start + MaxClockTicks)] :
        \A k \in 1 .. 3 : d[k] <= d[k + 1]}

(* One call of classifyWallet; when it returns the clock shows the value of *)
(* the last read.                                                           *)
ClassifyWalletClockAdvancing ==
    /\ now <= EdgeInstant
    /\ \E dateNow \in ClockReads(now) :
          /\ classified' = [done |-> TRUE, tier |-> classifyWallet(wallet, dateNow)]
          /\ now' = dateNow[4]
    /\ UNCHANGED wallet
    /\ UNCHANGED oracleVars
    /\ UNCHANGED backendVars

InitClock == OracleIdle /\ StoreLoadedAtEdge /\ BackendIdle

NextClock == ClassifyWalletClockAdvancing

SpecClock == InitClock /\ [][NextClock]_vars

(***************************************************************************)
(* The Wallet table of the backend.  A row holds the wallet's address, its  *)
(* tier column and its transactions; the transactions are one of five       *)
(* histories that all end at StoreEpoch, and profile names which one.       *)
(***************************************************************************)
MaxStored == 101

StoreEpoch == 100 * ONE_DAY

Profiles == 0 .. 4

ProfileHistory(p) ==
    CASE p = 0 -> <<>>
      [] p = 1 -> History(3, ONE_DAY, 0, 0, 1)
      [] p = 2 -> History(3, ONE_DAY, 0, 0, 0)
      [] p = 3 -> History(MIN_TX_FOR_TIER_3, ONE_DAY, 0, 0, 0)
      [] p = 4 -> History(MaxTx, 3 * ONE_DAY, 0, 0, 0)

StoredWallet(p) ==
    LET txs   == ProfileHistory(p)
        shift == StoreEpoch - LastTimestamp(txs)
    IN  [exists       |-> TRUE,
         firstSeen    |-> StoreEpoch - THREE_MONTHS,
         transactions |-> [i \in DOMAIN txs |->
                             [txs[i] EXCEPT !.timestamp = @ + shift]]]

Row(address, tier, profile) ==
    [address |-> address, tier |-> tier, profile |-> profile]

(* Variant: the tier column is left as it was. *)
walletUpdate_notPersisted(rows, address, tier) == rows

(* prisma.wallet.update({ where: { address }, data: { tier } }) *)
walletUpdate(rows, address, tier) ==
    [j \in DOMAIN rows |->
        IF rows[j].address = address THEN [rows[j] EXCEPT !.tier = tier]
        ELSE rows[j]]

(***************************************************************************)
(* Synchronizer (pushTiersToChain)                                          *)
(***************************************************************************)
BATCH_SIZE == 50

(* Variant: every chunk runs one element into the next one. *)
chunkArray_overlapping(array, size) ==
    [c \in 1 .. ((Len(array) + size - 1) \div size) |->
        SubSeq(array, (c - 1) * size + 1,
               IF c * size + 1 < Len(array) THEN c * size + 1 ELSE Len(array))]

(* Variant: a final chunk shorter than size is dropped. *)
chunkArray_dropsRemainder(array, size) ==
    [c \in 1 .. (Len(array) \div size) |->
        SubSeq(array, (c - 1) * size + 1, c * size)]

chunkArray(array, size) ==
    [c \in 1 .. ((Len(array) + size - 1) \div size) |->
        SubSeq(array, (c - 1) * size + 1,
               IF c * size < Len(array) THEN c * size ELSE Len(array))]

addressesOf(batch) == [j \in DOMAIN batch |-> batch[j].address]
tiersOf(batch)     == [j \in DOMAIN batch |-> batch[j].tier]

(* Step 1: the rows of the Wallet table are read. *)
SyncFindMany ==
    /\ sync.pc = "start"
    /\ sync' = [sync EXCEPT !.pc = "classify", !.wallets = store, !.i = 1]
    /\ UNCHANGED <<store, sent, reclass, wallet, now, classified>>
    /\ UNCHANGED apiVars
    /\ UNCHANGED oracleVars

(* Step 2, one iteration: the wallet is classified, the result is collected *)
(* and the tier column of its row is written.                               *)
SyncClassifyWallet ==
    /\ sync.pc = "classify"
    /\ sync.i <= Len(sync.wallets)
    /\ LET w    == sync.wallets[sync.i]
           tier == classifyWallet(StoredWallet(w.profile), <<now, now, now, now>>)
       IN  /\ sync' = [sync EXCEPT
                          !.results = Append(@, [address |-> w.address, tier |-> tier]),
                          !.i = @ + 1]
           /\ store' = walletUpdate(store, w.address, tier)
    /\ UNCHANGED <<sent, reclass, wallet, now, classified>>
    /\ UNCHANGED apiVars
    /\ UNCHANGED oracleVars

(* Steps 3 and 4 up to the loop: the signer is connected and the results    *)
(* are split into batches.                                                  *)
SyncConnect ==
    /\ sync.pc = "classify"
    /\ sync.i > Len(sync.wallets)
    /\ sync' = [sync EXCEPT !.pc = "submit",
                            !.batches = chunkArray(sync.results, BATCH_SIZE),
                            !.k = 1]
    /\ UNCHANGED <<store, sent, reclass, wallet, now, classified>>
    /\ UNCHANGED apiVars
    /\ UNCHANGED oracleVars

(* Variant: the next batch is sent without waiting for the receipt. *)
afterSend_noWait(s) == [s EXCEPT !.k = @ + 1]

(* contract.setTierBatch resolved: the run goes on to tx.wait(). *)
afterSend(s) == [s EXCEPT !.pc = "wait"]

(* Variant: the error is logged and the loop goes on with the next batch. *)
onBatchError_continues(s) == [s EXCEPT !.pc = "submit", !.k = @ + 1]

(* catch: the error is logged and thrown again; the caller exits with 1. *)
onBatchError(s) == [s EXCEPT !.pc = "failed"]

(* contract.setTierBatch(addresses, tiers) for batch k: the transaction is  *)
(* signed and handed to the chain.                                          *)
SyncSubmit ==
    /\ sync.pc = "submit"
    /\ sync.k <= Len(sync.batches)
    /\ sent' = Append(sent, [batch |-> sync.k, status |-> "pending"])
    /\ sync' = afterSend(sync)
    /\ UNCHANGED <<store, reclass, wallet, now, classified>>
    /\ UNCHANGED apiVars
    /\ UNCHANGED oracleVars

(* contract.setTierBatch throws: the node is unreachable, or the gas        *)
(* estimate finds that the call reverts.  Nothing is sent.                  *)
SyncSubmitFails ==
    /\ sync.pc = "submit"
    /\ sync.k <= Len(sync.batches)
    /\ sync' = onBatchError(sync)
    /\ UNCHANGED <<store, sent, reclass, wallet, now, classified>>
    /\ UNCHANGED apiVars
    /\ UNCHANGED oracleVars

(* The chain includes a pending transaction in a block: the contract runs   *)
(* setTierBatch for the signer.                                             *)
ChainMine ==
    /\ \E j \in DOMAIN sent :
          /\ sent[j].status = "pending"
          /\ LET batch == sync.batches[sent[j].batch]
             IN  setTierBatch(sync.signer, addressesOf(batch), tiersOf(batch))
          /\ sent' = [sent EXCEPT ![j].status =
                         IF lastCall'.err = "none" THEN "confirmed" ELSE "reverted"]
    /\ UNCHANGED <<store, sync, reclass, wallet, now, classified>>
    /\ UNCHANGED apiVars

(* tx.wait() resolves with the receipt of a successful transaction. *)
SyncConfirmed ==
    /\ sync.pc = "wait"
    /\ sent[Len(sent)].status = "confirmed"
    /\ sync' = [sync EXCEPT !.pc = "submit", !.k = @ + 1]
    /\ UNCHANGED <<store, sent, reclass, wallet, now, classified>>
    /\ UNCHANGED apiVars
    /\ UNCHANGED oracleVars

(* tx.wait() throws: the transaction reverted, or the node cannot be asked. *)
SyncWaitFails ==
    /\ sync.pc = "wait"
    /\ sent[Len(sent)].status # "confirmed"
    /\ sync' = onBatchError(sync)
    /\ UNCHANGED <<store, sent, reclass, wallet, now, classified>>
    /\ UNCHANGED apiVars
    /\ UNCHANGED oracleVars

(* The loop is over: "Sync complete". *)
SyncComplete ==
    /\ sync.pc = "submit"
    /\ sync.k > Len(sync.batches)
    /\ sync' = [sync EXCEPT !.pc = "done"]
    /\ UNCHANGED <<store, sent, reclass, wallet, now, classified>>
    /\ UNCHANGED apiVars
    /\ UNCHANGED oracleVars

(* The process dies between two steps. *)
SyncCrash ==
    /\ sync.pc \in {"start", "classify", "submit", "wait"}
    /\ sync' = [sync EXCEPT !.pc = "crashed"]
    /\ UNCHANGED <<store, sent, reclass, wallet, now, classified>>
    /\ UNCHANGED apiVars
    /\ UNCHANGED oracleVars

(***************************************************************************)
(* Runs of the synchronizer: n stored wallets with the addresses 1 .. n,    *)
(* one of them possibly replaced by the zero address, every tier column at  *)
(* its default; the signer is the updater or the owner; the chain is fresh, *)
(* or holds other tiers, or holds the first batch of an earlier run.        *)
(***************************************************************************)
SyncUpdater  == 2
StoreSizes   == {0, 1, BATCH_SIZE, BATCH_SIZE + 1, MaxStored}
ZeroRows     == {0, 1, BATCH_SIZE + 1}
ChainsBefore == {"fresh", "stale", "partial"}
SyncAddress  == 0 .. MaxStored

ProfileOf(i) == i % 5

StoreRows(n, z) ==
    [i \in 1 .. n |-> Row(IF i = z THEN ZERO_ADDRESS ELSE i, 0, ProfileOf(i))]

ChainBefore(c) ==
    [a \in SyncAddress |->
        IF a = ZERO_ADDRESS THEN 0
        ELSE CASE c = "fresh"   -> 0
               [] c = "stale"   -> (a + 2) % 5
               [] c = "partial" -> IF a <= BATCH_SIZE THEN ProfileOf(a) ELSE 0]

InitSync ==
    /\ owner = Deployer
    /\ pendingOwner = ZERO_ADDRESS
    /\ updater = SyncUpdater
    /\ \E c \in ChainsBefore : tiers = ChainBefore(c)
    /\ lastCall = Call("constructor", owner, "none")
    /\ emitted = << <<"OwnershipTransferred", ZERO_ADDRESS, owner, 0>>,
                    <<"UpdaterChanged", ZERO_ADDRESS, updater, 0>> >>
    /\ wallet = [exists |-> FALSE, firstSeen |-> 0, transactions |-> <<>>]
    /\ now = StoreEpoch
    /\ classified = [done |-> FALSE, tier |-> 0]
    /\ \E n \in StoreSizes, z \in ZeroRows :
          /\ z <= n
          /\ store = StoreRows(n, z)
    /\ \E signer \in {updater, owner} :
          sync = [pc |-> "start", signer |-> signer, wallets |-> <<>>, i |-> 0,
                  results |-> <<>>, batches |-> <<>>, k |-> 0]
    /\ sent = <<>>
    /\ reclass = <<>>
    /\ ApiIdle

NextSync == \/ SyncFindMany
            \/ SyncClassifyWallet
            \/ SyncConnect
            \/ SyncSubmit
            \/ SyncSubmitFails
            \/ ChainMine
            \/ SyncConfirmed
            \/ SyncWaitFails
            \/ SyncComplete
            \/ SyncCrash

SpecSync == InitSync /\ [][NextSync]_vars

(* The synchronizer's own steps are taken whenever they can be: a pending   *)
(* call resolves or rejects, tx.wait() returns once the transaction is in a *)
(* block.  Nothing obliges the chain to include a transaction, the node to  *)
(* fail, or the process to crash.                                           *)
SyncProgress ==
    \/ SyncFindMany
    \/ SyncClassifyWallet
    \/ SyncConnect
    \/ SyncSubmit
    \/ SyncConfirmed
    \/ (SyncWaitFails /\ sent[Len(sent)].status = "reverted")
    \/ SyncComplete

SpecSyncFair == SpecSync /\ WF_vars(SyncProgress)

(***************************************************************************)
(* Batch reclassifier (classifyAllWallets, run by main).  reclass[r] is the *)
(* r-th run: its position, the rows findMany returned, the loop index, the  *)
(* locals oldTier and newTier of the latest iteration, and the lines the    *)
(* loop has written to the console.                                         *)
(***************************************************************************)
MaxRuns == 2

Runs == 1 .. MaxRuns

(* Step 1: the rows of the Wallet table are read. *)
ReclassFindMany(r) ==
    /\ reclass[r].pc = "start"
    /\ reclass' = [reclass EXCEPT ![r].pc = "loop", ![r].wallets = store, ![r].i = 1]
    /\ UNCHANGED <<store, sync, sent, wallet, now, classified>>
    /\ UNCHANGED apiVars
    /\ UNCHANGED oracleVars

(* One iteration: the wallet is classified and, when the tier differs from  *)
(* the tier of the row that findMany returned, the tier column is written.  *)
ReclassWallet(r) ==
    /\ reclass[r].pc = "loop"
    /\ reclass[r].i <= Len(reclass[r].wallets)
    /\ LET w       == reclass[r].wallets[reclass[r].i]
           oldTier == w.tier
           newTier == classifyWallet(StoredWallet(w.profile), <<now, now, now, now>>)
       IN  /\ reclass' = [reclass EXCEPT
                             ![r].oldTier = oldTier,
                             ![r].newTier = newTier,
                             ![r].log = Append(@,
                                 IF oldTier # newTier
                                 THEN <<"transition", w.address, oldTier, newTier>>
                                 ELSE <<"unchanged", w.address, oldTier, oldTier>>),
                             ![r].i = @ + 1]
           /\ store' = IF oldTier # newTier
                       THEN walletUpdate(store, w.address, newTier)
                       ELSE store
    /\ UNCHANGED <<sync, sent, wallet, now, classified>>
    /\ UNCHANGED apiVars
    /\ UNCHANGED oracleVars

(* classifyWallet or prisma.wallet.update rejects: the loop has no handler, *)
(* classifyAllWallets rejects, and main logs the error and exits with 1.    *)
ReclassWalletFails(r) ==
    /\ reclass[r].pc = "loop"
    /\ reclass[r].i <= Len(reclass[r].wallets)
    /\ reclass' = [reclass EXCEPT ![r].pc = "failed"]
    /\ UNCHANGED <<store, sync, sent, wallet, now, classified>>
    /\ UNCHANGED apiVars
    /\ UNCHANGED oracleVars

(* The loop is over: "Classification complete". *)
ReclassComplete(r) ==
    /\ reclass[r].pc = "loop"
    /\ reclass[r].i > Len(reclass[r].wallets)
    /\ reclass' = [reclass EXCEPT ![r].pc = "done"]
    /\ UNCHANGED <<store, sync, sent, wallet, now, classified>>
    /\ UNCHANGED apiVars
    /\ UNCHANGED oracleVars

(* Runs of the reclassifier over a store of n wallets whose tier columns    *)
(* hold the default or the result of an earlier classification; the runs    *)
(* start at StoreEpoch and the clock may move on while they are under way.  *)
ReclassSizes == {1, 2, 3}
TiersBefore  == {0, 2}

ReclassRows(n, t) == [i \in 1 .. n |-> Row(i, t, ProfileOf(i + 2))]

InitReclass ==
    /\ OracleIdle
    /\ wallet = [exists |-> FALSE, firstSeen |-> 0, transactions |-> <<>>]
    /\ now = StoreEpoch
    /\ classified = [done |-> FALSE, tier |-> 0]
    /\ \E n \in ReclassSizes, t \in TiersBefore : store = ReclassRows(n, t)
    /\ sync = [pc |-> "idle", signer |-> ZERO_ADDRESS, wallets |-> <<>>, i |-> 0,
               results |-> <<>>, batches |-> <<>>, k |-> 0]
    /\ sent = <<>>
    /\ reclass = [r \in Runs |-> [pc |-> "start", wallets |-> <<>>, i |-> 0,
                                  oldTier |-> 0, newTier |-> 0, log |-> <<>>]]
    /\ ApiIdle

NextReclass == \/ \E r \in Runs : ReclassFindMany(r)
               \/ \E r \in Runs : ReclassWallet(r)
               \/ \E r \in Runs : ReclassWalletFails(r)
               \/ \E r \in Runs : ReclassComplete(r)
               \/ AdvanceClock

SpecReclass == InitReclass /\ [][NextReclass]_vars

(***************************************************************************)
(* Rate limiter of GET /tier/:address (simpleRateLimit).  requestCounts is  *)
(* the Map from IP address to { count, resetTime }; an IP without an entry  *)
(* is outside its domain.  The window length is counted in seconds.         *)
(***************************************************************************)
MaxArrivals == 3

TIER_MAX_REQUESTS == 100
TIER_WINDOW       == 60

Ips == {"198.51.100.1", "198.51.100.2"}

mapSet(map, key, value) ==
    [x \in DOMAIN map \cup {key} |-> IF x = key THEN value ELSE map[x]]

(* Variant: the request that finds the count at the maximum still passes. *)
simpleRateLimit_allowsOneMore(maxRequests, windowMs, counts, ip, dateNow) ==
    IF ip \notin DOMAIN counts \/ dateNow > counts[ip].resetTime
    THEN [counts |-> mapSet(counts, ip, [count |-> 1, resetTime |-> dateNow + windowMs]),
          status |-> 200]
    ELSE IF counts[ip].count > maxRequests
    THEN [counts |-> counts, status |-> 429]
    ELSE [counts |-> [counts EXCEPT ![ip].count = @ + 1], status |-> 200]

(* The middleware for one request: the Map after it and the status it       *)
(* leads to (200 stands for next()).                                        *)
simpleRateLimit(maxRequests, windowMs, counts, ip, dateNow) ==
    IF ip \notin DOMAIN counts \/ dateNow > counts[ip].resetTime
    THEN [counts |-> mapSet(counts, ip, [count |-> 1, resetTime |-> dateNow + windowMs]),
          status |-> 200]
    ELSE IF counts[ip].count >= maxRequests
    THEN [counts |-> counts, status |-> 429]
    ELSE [counts |-> [counts EXCEPT ![ip].count = @ + 1], status |-> 200]

(* n requests of one IP handled one after the other at one instant: the Map *)
(* after them and the number that passed.                                   *)
RECURSIVE ServeRequests(_, _, _, _)
ServeRequests(acc, ip, dateNow, n) ==
    IF n = 0 THEN acc
    ELSE IF n = 1
    THEN LET r == simpleRateLimit(TIER_MAX_REQUESTS, TIER_WINDOW, acc.counts, ip, dateNow)
         IN  [counts |-> r.counts,
              passed |-> acc.passed + (IF r.status = 200 THEN 1 ELSE 0)]
    ELSE LET first == ServeRequests(acc, ip, dateNow, n \div 2)
         IN  IF first.passed >= 0
             THEN ServeRequests(first, ip, dateNow, n - n \div 2)
             ELSE first

ArrivalSizes == {1, TIER_MAX_REQUESTS}

(* Requests arrive: one, or TIER_MAX_REQUESTS back to back, from one IP. *)
TierRequests ==
    /\ Len(responses) < MaxArrivals
    /\ \E ip \in Ips, n \in ArrivalSizes :
          LET r == ServeRequests([counts |-> requestCounts, passed |-> 0], ip, now, n)
          IN  /\ requestCounts' = r.counts
              /\ responses' = Append(responses,
                                     [ip |-> ip, at |-> now, requests |-> n,
                                      passed |-> r.passed])
    /\ UNCHANGED <<store, sync, sent, reclass, wallet, now, classified>>
    /\ UNCHANGED oracleVars

(* The interval timer fires: expired entries are deleted from the Map. *)
PurgeExpired ==
    /\ requestCounts' =
          [ip \in {x \in DOMAIN requestCounts : ~(now > requestCounts[x].resetTime)}
              |-> requestCounts[ip]]
    /\ UNCHANGED <<responses, store, sync, sent, reclass, wallet, now, classified>>
    /\ UNCHANGED oracleVars

(* Instants at which requests are observed, around the ends of the windows. *)
Instants == {0, 1, TIER_WINDOW - 1, TIER_WINDOW, TIER_WINDOW + 1,
             2 * TIER_WINDOW + 1, 2 * TIER_WINDOW + 2}

ClockMoves ==
    /\ \E t \in Instants : t > now /\ now' = t
    /\ UNCHANGED <<wallet, classified>>
    /\ UNCHANGED oracleVars
    /\ UNCHANGED backendVars

InitLimiter ==
    /\ OracleIdle
    /\ wallet = [exists |-> FALSE, firstSeen |-> 0, transactions |-> <<>>]
    /\ now = 0
    /\ classified = [done |-> FALSE, tier |-> 0]
    /\ BackendIdle

NextLimiter == TierRequests \/ PurgeExpired \/ ClockMoves

SpecLimiter == InitLimiter /\ [][NextLimiter]_vars

StoreIdle == /\ wallet = [exists |-> FALSE, firstSeen |-> 0, transactions |-> <<>>]
             /\ now = 0
             /\ classified = [done |-> FALSE, tier |-> 0]

Init == Constructor /\ StoreIdle /\ BackendIdle

Next == \/ SetUpdater
        \/ ProposeOwner
        \/ AcceptOwnership
        \/ CancelOwnershipTransfer
        \/ SetTier
        \/ SetTierBatch
        \/ DeleteTier

Spec == Init /\ [][Next]_vars

(* The tier writes alone, batches at the size limit included, under the     *)
(* updater the constructor installed.                                       *)
NextWrites == \/ SetTier
              \/ SetTierBatch
              \/ SetTierBatchAtLimit
              \/ DeleteTier

SpecWrites == Init /\ [][NextWrites]_vars

(***************************************************************************)
(* Properties of the RiskOracle contract                                   *)
(***************************************************************************)
TierWriters == {"setTier", "setTierBatch", "deleteTier"}
OwnerOnly   == {"setUpdater", "proposeOwner", "cancelOwnershipTransfer"}
StorageUnchanged == UNCHANGED <<owner, pendingOwner, updater, tiers>>

MinimumTier(a) ==
    CASE a = 0 -> 2
      [] a = 1 -> 2
      [] a = 2 -> 3
      [] a = 3 -> 3
      [] a = 4 -> 2

C5_UnknownActionDenied ==
    \A w \in Address : \A a \in Uint8 \ (0 .. 4) : ~can(w, a)

(* A wallet of the highest tier is refused action type 255.                 *)
C5_Witness ==
    \E w \in Address : tiers[w] = 4 /\ ~can(w, 2^8 - 1)

C8_OwnerChangesOnlyByAccept ==
    [][ /\ owner' # owner =>
              /\ lastCall' = Call("acceptOwnership", pendingOwner, "none")
              /\ owner' = pendingOwner
              /\ pendingOwner' = ZERO_ADDRESS
        /\ (lastCall'.fn = "acceptOwnership" /\ pendingOwner = ZERO_ADDRESS) =>
              /\ lastCall'.err = "NotPendingOwner"
              /\ StorageUnchanged ]_vars

(* The ownership was handed over: the accepting call succeeded.             *)
C8_Witness ==
    /\ lastCall = Call("acceptOwnership", owner, "none")
    /\ pendingOwner = ZERO_ADDRESS
    /\ emitted[1][1] = "OwnershipTransferred" /\ emitted[1][2] # owner

(***************************************************************************)
(* Properties of the classifier                                            *)
(***************************************************************************)
Days(d) == d * 24 * 60 * 60

History_ == wallet.transactions
TxCount == Len(History_)
AccountAge == now - wallet.firstSeen
FlipCount == Cardinality({i \in DOMAIN History_ : History_[i].isFlip})
SuspiciousCount == Cardinality({i \in DOMAIN History_ : History_[i].isSuspicious})
ImpulsiveAt(i) ==
    /\ i + 4 \in DOMAIN History_
    /\ History_[i + 4].timestamp - History_[i].timestamp < 60 * 60
Excluded ==
    /\ TxCount >= 1
    /\ \/ FlipCount >= 5
       \/ 10 * SuspiciousCount > 3 * TxCount
       \/ \E i \in DOMAIN History_ : ImpulsiveAt(i)

Trailing(window) == {i \in DOMAIN History_ : History_[i].timestamp >= now - window}
SpanOf(S) ==
    IF S = {} THEN 0
    ELSE LET ts == {History_[i].timestamp : i \in S}
         IN  (CHOOSE hi \in ts : \A t \in ts : t <= hi)
               - (CHOOSE lo \in ts : \A t \in ts : lo <= t)

(* C3: a wallet with at least one transaction and flipCount >= 5, or a      *)
(* suspicious ratio above 0.3, or five consecutive transactions spanning    *)
(* less than 60 minutes, is classified exactly 1, whatever its count, age,  *)
(* spread and weeks.                                                        *)
C3_MonotonicExclusion ==
    (classified.done /\ Excluded) => classified.tier = 1

(* A history that meets the count and age of tier 4, is neither flip-heavy  *)
(* nor suspicious, and whose only impulsive windows lie at its end, is      *)
(* classified 1.                                                            *)
C3_Witness ==
    /\ classified.done /\ classified.tier = 1
    /\ TxCount >= 30 /\ AccountAge >= Days(90)
    /\ FlipCount = 0 /\ SuspiciousCount = 0
    /\ ~ImpulsiveAt(1)
    /\ ImpulsiveAt(TxCount - 4)

(* C9: a wallet that is not excluded is classified at least 2 exactly when  *)
(* txCount >= 3 and accountAge >= 7 days, and 0 otherwise.                  *)
C9_Tier2Gate ==
    (classified.done /\ ~Excluded) =>
        IF TxCount >= 3 /\ AccountAge >= Days(7)
        THEN classified.tier >= 2
        ELSE classified.tier = 0

(* A wallet with ten or more transactions, not excluded, aged exactly six   *)
(* days, is classified 0.                                                   *)
C9_Witness ==
    /\ classified.done /\ ~Excluded
    /\ TxCount >= 10 /\ AccountAge = Days(6)
    /\ classified.tier = 0

ClusteredAtWindowStart(window) ==
    \A i \in DOMAIN History_ :
        /\ History_[i].timestamp >= now - window
        /\ 10 * (History_[i].timestamp - (now - window)) <= window

IsoWeekOf(t) == (t \div Days(1) + 3) \div 7
IsoWeeks(S) == {IsoWeekOf(History_[i].timestamp) : i \in S}

(* C11: a wallet is classified 4 only if it is not excluded, meets the tier *)
(* 3 conditions (count >= 10, age >= 14 days, at least 3 transactions in    *)
(* the trailing 14 days spanning at least 7 days), has txCount >= 30 and    *)
(* accountAge >= 90 days, has at least 3 transactions in the trailing 90    *)
(* days spanning at least 45 days, and the transactions of the trailing 90  *)
(* days fall into at least 4 distinct ISO calendar weeks.                   *)
C11_Tier4OnlyIf ==
    (classified.done /\ classified.tier = 4) =>
        /\ ~Excluded
        /\ TxCount >= 10 /\ AccountAge >= Days(14)
        /\ Cardinality(Trailing(Days(14))) >= 3
        /\ SpanOf(Trailing(Days(14))) >= Days(7)
        /\ TxCount >= 30 /\ AccountAge >= Days(90)
        /\ Cardinality(Trailing(Days(90))) >= 3
        /\ SpanOf(Trailing(Days(90))) >= Days(45)
        /\ Cardinality(IsoWeeks(Trailing(Days(90)))) >= 4

(* C12: classification is total: for every wallet record (known or unknown  *)
(* to the store, with or without transactions, of any age) the call returns *)
(* a tier in 0..4, and with zero transactions it returns 0.                 *)
C12_ClassificationTotal ==
    classified.done =>
        /\ classified.tier \in 0 .. 4
        /\ (~wallet.exists \/ TxCount = 0) => classified.tier = 0

(* A wallet unknown to the store has been classified (0).                   *)
C12_Witness ==
    /\ classified.done
    /\ ~wallet.exists
    /\ classified.tier = 0

(***************************************************************************)
(* Properties of the tier writes. A step is the call f(args) when it        *)
(* satisfies the relation f(args) between its two states.                   *)
(***************************************************************************)
AllBatchArgs == BatchArgs \cup BatchArgsAtLimit
InvalidEntry(w, t) == w = ZERO_ADDRESS \/ t > 4
RejectedBatch(b) ==
    \/ Len(b[1]) # Len(b[2])
    \/ Len(b[1]) > 200
    \/ \E i \in DOMAIN b[1] \cap DOMAIN b[2] : InvalidEntry(b[1][i], b[2][i])
RejectedBatches == {b \in AllBatchArgs : RejectedBatch(b)}
FullValidBatches ==
    {b \in AllBatchArgs : Len(b[1]) = 200 /\ ~RejectedBatch(b)}
RevertedNoEffect ==
    /\ lastCall'.err # "none"
    /\ StorageUnchanged
    /\ emitted' = <<>>

(* C13: setTier with the zero wallet or a tier above 4, and setTierBatch    *)
(* with arrays of different lengths, more than 200 entries, or an entry     *)
(* with the zero address or a tier above 4, revert, leave every tier as it  *)
(* was and emit nothing, whatever valid entries precede the invalid one (a  *)
(* step that succeeds or has an effect is no such call of its sender); in   *)
(* every state the updater's call with a batch of exactly 200 valid entries *)
(* is accepted.                                                             *)
C13_InvalidWritesRevert ==
    /\ [][ ~RevertedNoEffect =>
              /\ \A w \in WalletArgs, t \in TierArgs :
                    InvalidEntry(w, t) => ~setTier(lastCall'.sender, w, t)
              /\ \A b \in RejectedBatches :
                    ~setTierBatch(lastCall'.sender, b[1], b[2]) ]_vars
    /\ [](\A b \in FullValidBatches :
              setTierBatchOutcome(updater, b[1], b[2]).err = "none")

(* The updater's batch of 201 entries has just been refused while a tier    *)
(* written earlier is in place.                                             *)
C13_Witness ==
    /\ lastCall = Call("setTierBatch", updater, "BatchTooLarge")
    /\ emitted = <<>>
    /\ \E w \in Address : tiers[w] # 0

(* The batch b submitted again by the updater in the state the step leaves. *)
ResubmissionSkipsAll(b) ==
    setTierBatchOutcome(updater, b[1], b[2])'
        = [err |-> "none", tiers |-> tiers', emitted |-> <<>>]
OneTierPerWallet(b) ==
    /\ Len(b[1]) = Len(b[2])
    /\ \A i, j \in DOMAIN b[1] : b[1][i] = b[1][j] => b[2][i] = b[2][j]
ConsistentBatches ==
    {b \in BatchArgs : ~RejectedBatch(b) /\ OneTierPerWallet(b)}

(* C14 as stated: for every batch that setTierBatch accepts, wallets        *)
(* repeated or not, the same batch submitted right after skips every entry: *)
(* no tier changes and no TierUpdated event is emitted.                     *)
C14_AsStated ==
    [][ (lastCall'.fn = "setTierBatch" /\ lastCall'.err = "none") =>
          \A b \in BatchArgs :
              setTierBatch(updater, b[1], b[2]) => ResubmissionSkipsAll(b) ]_vars

(* C14 (amended): for every accepted batch that lists no wallet with two    *)
(* different tiers, the same batch submitted right after skips every entry: *)
(* no tier changes and no TierUpdated event is emitted. (A batch with       *)
(* arrays of different lengths or an invalid entry is never accepted, C13.) *)
C14_BatchIdempotence ==
    [][ (lastCall'.fn = "setTierBatch" /\ lastCall'.err = "none") =>
          \A b \in ConsistentBatches :
              setTierBatch(updater, b[1], b[2]) => ResubmissionSkipsAll(b) ]_vars

(* An accepted batch has just written two wallets.                          *)
C14_Witness ==
    /\ lastCall = Call("setTierBatch", updater, "none")
    /\ Len(emitted) = 2
    /\ emitted[1][2] # emitted[2][2]

(* C15: setTier(wallet, tier) by the updater with the tier the wallet       *)
(* already has (0 on a wallet never written included) reverts with          *)
(* NoChange, changes no storage and emits nothing; with a different valid   *)
(* tier it stores the new tier.                                             *)
C15_SetTierNoChange ==
    [][ lastCall'.fn = "setTier" =>
          \A s \in Senders, w \in WalletArgs \ {ZERO_ADDRESS}, t \in 0 .. 4 :
              (s = updater /\ setTier(s, w, t)) =>
                  IF tiers[w] = t
                  THEN /\ lastCall'.err = "NoChange"
                       /\ StorageUnchanged
                       /\ emitted' = <<>>
                  ELSE /\ lastCall'.err = "none"
                       /\ tiers' = [tiers EXCEPT ![w] = t] ]_vars

(* The updater has just been refused with NoChange while no wallet has a    *)
(* tier: the call set 0 on a wallet at 0.                                   *)
C15_Witness ==
    /\ lastCall = Call("setTier", updater, "NoChange")
    /\ \A w \in Address : tiers[w] = 0
    /\ emitted = <<>>

(* C16: deleteTier(wallet) by the updater on a wallet with a non-zero tier  *)
(* sets that tier to 0, leaves every other wallet as it was and emits       *)
(* TierDeleted with the old tier; on a wallet at tier 0 it reverts with     *)
(* TierNotSet and on the zero address with ZeroAddress.                     *)
C16_DeleteTier ==
    [][ lastCall'.fn = "deleteTier" =>
          \A s \in Senders, w \in WalletArgs :
              (s = updater /\ deleteTier(s, w)) =>
                  IF w = ZERO_ADDRESS
                  THEN lastCall'.err = "ZeroAddress" /\ RevertedNoEffect
                  ELSE IF tiers[w] = 0
                  THEN lastCall'.err = "TierNotSet" /\ RevertedNoEffect
                  ELSE /\ lastCall'.err = "none"
                       /\ tiers'[w] = 0
                       /\ \A v \in Address \ {w} : tiers'[v] = tiers[v]
                       /\ emitted' = << <<"TierDeleted", w, tiers[w], 0>> >> ]_vars

(* A wallet's tier has just been deleted while another wallet keeps its     *)
(* non-zero tier.                                                           *)
C16_Witness ==
    /\ lastCall = Call("deleteTier", updater, "none")
    /\ Len(emitted) = 1 /\ emitted[1][1] = "TierDeleted" /\ emitted[1][3] # 0
    /\ tiers[emitted[1][2]] = 0
    /\ \E v \in Address : tiers[v] # 0

(* C17: while the updater is the zero address, every setTier, setTierBatch  *)
(* and deleteTier call reverts, whoever sends it, and no stored tier        *)
(* changes; the pause ends only in a setUpdater call of the owner; getTier  *)
(* and can keep answering from the stored tiers.                            *)
C17_EmergencyPause ==
    [][ updater = ZERO_ADDRESS =>
          /\ lastCall'.fn \in TierWriters =>
                /\ lastCall'.err = "NotUpdater"
                /\ emitted' = <<>>
          /\ tiers' = tiers
          /\ updater' # ZERO_ADDRESS =>
                lastCall' = Call("setUpdater", owner, "none")
          /\ \A w \in Address :
                /\ getTier(w)' = tiers[w]
                /\ \A a \in 0 .. 4 : can(w, a)' <=> (tiers[w] >= MinimumTier(a)) ]_vars

(* The contract is paused with a tier in place that grants TRADE, and the   *)
(* owner has just been refused a write.                                     *)
C17_Witness ==
    /\ updater = ZERO_ADDRESS
    /\ lastCall.fn \in TierWriters /\ lastCall.err = "NotUpdater"
    /\ \E w \in Address : tiers[w] >= 2 /\ can(w, ACTION_TRADE)

(* C18: setUpdater, proposeOwner or cancelOwnershipTransfer sent by an      *)
(* address that is not the owner, the updater and the pending candidate     *)
(* included, reverts with NotOwner and leaves owner, pendingOwner, updater  *)
(* and every tier as they were.                                             *)
C18_OwnerOnlyCalls ==
    [][ (lastCall'.fn \in OwnerOnly /\ lastCall'.sender # owner) =>
          /\ lastCall'.err = "NotOwner"
          /\ StorageUnchanged
          /\ emitted' = <<>> ]_vars

(* The pending candidate, who is also the updater, has just been refused    *)
(* cancelOwnershipTransfer.                                                 *)
C18_Witness ==
    /\ lastCall = Call("cancelOwnershipTransfer", pendingOwner, "NotOwner")
    /\ pendingOwner = updater
    /\ pendingOwner # owner

(* C19: cancelOwnershipTransfer by the owner while a candidate is pending   *)
(* clears pendingOwner and leaves the owner; an acceptOwnership call of the *)
(* cancelled candidate right after it reverts; with no candidate pending    *)
(* the cancellation reverts with NoPendingTransfer.                         *)
C19_CancelTransfer ==
    [][ /\ (lastCall'.fn = "cancelOwnershipTransfer" /\ lastCall'.sender = owner) =>
              IF pendingOwner # ZERO_ADDRESS
              THEN /\ lastCall'.err = "none"
                   /\ pendingOwner' = ZERO_ADDRESS
                   /\ owner' = owner
                   /\ emitted' = << <<"OwnershipTransferCancelled", pendingOwner, 0, 0>> >>
              ELSE /\ lastCall'.err = "NoPendingTransfer"
                   /\ RevertedNoEffect
        /\ (lastCall = Call("cancelOwnershipTransfer", owner, "none")
              /\ lastCall'.fn = "acceptOwnership"
              /\ lastCall'.sender = emitted[1][2]) =>
              /\ lastCall'.err = "NotPendingOwner"
              /\ RevertedNoEffect ]_vars

(* A proposal to an address other than the owner has just been cancelled.   *)
C19_Witness ==
    /\ lastCall = Call("cancelOwnershipTransfer", owner, "none")
    /\ pendingOwner = ZERO_ADDRESS
    /\ emitted[1][1] = "OwnershipTransferCancelled"
    /\ emitted[1][2] \notin {ZERO_ADDRESS, owner}

(* C20: proposeOwner(candidate) by the owner with a non-zero candidate sets *)
(* pendingOwner to the candidate and leaves the owner; when another         *)
(* candidate was pending, OwnershipTransferOverwritten names the displaced  *)
(* one, and an acceptOwnership call of the displaced candidate right after  *)
(* reverts; proposeOwner(address(0)) reverts with ZeroAddress and leaves    *)
(* the pending proposal in place.                                           *)
C20_ProposeOwner ==
    [][ /\ lastCall'.fn = "proposeOwner" =>
              \A s \in Senders, c \in Address :
                  (s = owner /\ proposeOwner(s, c)) =>
                      IF c = ZERO_ADDRESS
                      THEN lastCall'.err = "ZeroAddress" /\ RevertedNoEffect
                      ELSE /\ lastCall'.err = "none"
                           /\ pendingOwner' = c
                           /\ owner' = owner
                           /\ (pendingOwner \notin {ZERO_ADDRESS, c}) =>
                                 emitted'[1] = <<"OwnershipTransferOverwritten",
                                                 pendingOwner, c, 0>>
                           /\ pendingOwner = ZERO_ADDRESS =>
                                 emitted' = << <<"OwnershipTransferProposed", owner, c, 0>> >>
        /\ (lastCall = Call("proposeOwner", owner, "none")
              /\ emitted[1][1] = "OwnershipTransferOverwritten"
              /\ emitted[1][2] # emitted[1][3]
              /\ lastCall'.fn = "acceptOwnership"
              /\ lastCall'.sender = emitted[1][2]) =>
              /\ lastCall'.err = "NotPendingOwner"
              /\ RevertedNoEffect ]_vars

(* A pending candidate has just been displaced by another one.              *)
C20_Witness ==
    /\ lastCall = Call("proposeOwner", owner, "none")
    /\ emitted[1][1] = "OwnershipTransferOverwritten"
    /\ emitted[1][2] # pendingOwner
    /\ emitted[1][3] = pendingOwner

(* The wallets named by the events of the call that led to the new state.   *)
WrittenInStep ==
    {emitted'[i][2] : i \in {j \in DOMAIN emitted' :
                               emitted'[j][1] \in {"TierUpdated", "TierDeleted"}}}

(* C21: in every reachable state getTier returns a value in 0..4 for every  *)
(* address and 0 for the zero address; it returns 0 for every address after *)
(* construction, and what it returns for an address changes only in a       *)
(* successful write that names the address, so a wallet never written       *)
(* reads 0.                                                                 *)
C21_GetTierRange ==
    /\ \A a \in Address : getTier(a) = 0
    /\ [](/\ \A a \in Address : getTier(a) \in 0 .. 4
          /\ getTier(ZERO_ADDRESS) = 0)
    /\ [][ \A a \in Address :
              getTier(a)' # getTier(a) =>
                  /\ lastCall'.fn \in TierWriters
                  /\ lastCall'.err = "none"
                  /\ a \in WrittenInStep ]_vars

(* One wallet holds the highest tier, another was left at 0, and the        *)
(* updater has just been refused a tier above 4.                            *)
C21_Witness ==
    /\ lastCall = Call("setTier", updater, "TierOutOfRange")
    /\ \E w, v \in Address \ {ZERO_ADDRESS} : getTier(w) = 4 /\ getTier(v) = 0


(* C28: inactivity does not decrease a wallet's tier: with the history and  *)
(* firstSeen fixed, a classification at a later time never returns a lower  *)
(* tier than the classification before it.                                  *)
C28_InactivityKeepsTier ==
    [][ (classified.done /\ classified'.done /\ wallet' = wallet)
            => classified'.tier >= classified.tier ]_vars

(* C29: once classify has returned 1 for a wallet, it returns 1 at every    *)
(* later time and after any transactions with later timestamps are stored.  *)
C29_RestrictedForever ==
    [][ (classified.done /\ classified.tier = 1 /\ classified'.done)
            => classified'.tier = 1 ]_vars

(* Transactions of the run that the chain has not yet included in a block. *)
Outstanding == {j \in DOMAIN sent : sent[j].status = "pending"}

(* C22: the synchronizer's batches are strictly sequential: at most one     *)
(* submission is outstanding at any time, the batches are submitted in list *)
(* order, and a batch is submitted only after every batch before it has     *)
(* been confirmed.                                                          *)
C22_SequentialBatches ==
    /\ Cardinality(Outstanding) <= 1
    /\ \A j \in DOMAIN sent : sent[j].batch = j
    /\ \A j \in DOMAIN sent : j < Len(sent) => sent[j].status = "confirmed"

C22_Witness ==
    /\ Len(sent) = 3
    /\ sent[3].status = "pending"
    /\ sync.pc = "wait"


(* The tiers of batch b of the run are the tiers the contract reports. *)
BatchOnChain(b) ==
    \A e \in DOMAIN sync.batches[b] :
        getTier(sync.batches[b][e].address) = sync.batches[b][e].tier

(* C23: when the submission or the confirmation of a batch fails, the       *)
(* synchronizer submits no later batch and reports the failure (success is  *)
(* reported only when every batch was confirmed), and nothing is undone:    *)
(* the tiers of every confirmed batch stay on-chain.                        *)
C23_FailureHalts ==
    /\ [](/\ \A j \in DOMAIN sent :
                sent[j].status = "reverted" =>
                    /\ j = Len(sent)
                    /\ sync.pc \in {"wait", "failed", "crashed"}
          /\ sync.pc = "failed" => \A j \in DOMAIN sent : sent[j].batch <= sync.k
          /\ sync.pc = "done" =>
                /\ Len(sent) = Len(sync.batches)
                /\ \A j \in DOMAIN sent : sent[j].status = "confirmed"
          /\ \A j \in DOMAIN sent :
                sent[j].status = "confirmed" => BatchOnChain(sent[j].batch))
    /\ [][ sync.pc = "failed" => (sync' = sync /\ Len(sent') = Len(sent)) ]_vars

C23_Witness ==
    /\ sync.pc = "failed"
    /\ Len(sync.batches) = 3
    /\ Len(sent) = 2
    /\ sent[1].status = "confirmed"
    /\ sent[2].status = "reverted"
    /\ BatchOnChain(1)
    /\ \E a \in 1 .. BATCH_SIZE : getTier(a) # 0


(* The Wallet table holds the address with this tier. *)
Persisted(address, tier) ==
    /\ \E r \in DOMAIN store : store[r].address = address
    /\ \A r \in DOMAIN store : store[r].address = address => store[r].tier = tier

(* C24: write-through ordering: at every point of a synchronizer run, a     *)
(* crash at any step included, every (wallet, tier) pair the run has        *)
(* submitted on-chain is already in the store with that tier.               *)
C24_WriteThrough ==
    \A j \in DOMAIN sent :
        \A e \in DOMAIN sync.batches[sent[j].batch] :
            Persisted(sync.batches[sent[j].batch][e].address,
                      sync.batches[sent[j].batch][e].tier)

C24_Witness ==
    /\ sync.pc = "crashed"
    /\ Len(sent) = 2
    /\ sent[2].status = "pending"
    /\ \E e \in DOMAIN sync.batches[2] :
          /\ sync.batches[2][e].tier = 4
          /\ Persisted(sync.batches[2][e].address, 4)


(* C25: when a synchronizer run completes with every batch confirmed, then  *)
(* whatever the chain held before the run, every wallet of the store has an *)
(* on-chain tier equal to its stored tier.                                  *)
C25_SyncConverges ==
    sync.pc = "done" =>
        \A r \in DOMAIN store : getTier(store[r].address) = store[r].tier

C25_Witness ==
    /\ sync.pc = "done"
    /\ Len(store) > 2 * BATCH_SIZE
    /\ Len(sent) = 3
    /\ \E r \in DOMAIN store : store[r].tier = 4 /\ getTier(store[r].address) = 4
    /\ \E e \in DOMAIN emitted : emitted[e][1] = "TierUpdated" /\ emitted[e][3] # 0


(* C30: every synchronizer run terminates: each submission is confirmed or  *)
(* reported as failed within a bounded wait, so the run ends by reporting   *)
(* success or failure (or dies), even when the chain never confirms a       *)
(* submitted transaction.                                                   *)
C30_SyncTerminates == <>(sync.pc \in {"done", "failed", "crashed"})


(* C26: in a batch reclassifier run a failure while classifying or          *)
(* persisting one wallet does not abort the run: a run that has ended has   *)
(* gone through every wallet of the store but, at most, the one wallet that *)
(* failed.                                                                  *)
C26_FailureDoesNotAbort ==
    \A r \in DOMAIN reclass :
        reclass[r].pc \in {"done", "failed"} =>
            reclass[r].i >= Len(reclass[r].wallets)

(* C27: when two reclassifier runs overlap, a run's read of the stored      *)
(* tier, its classification and its write for a wallet are atomic with      *)
(* respect to the other run: when a run has classified a wallet, the store  *)
(* holds the tier it computed, so the stored tier is always the tier of the *)
(* classification that ran last.                                            *)
C27_NoLostUpdate ==
    [][ \A r \in DOMAIN reclass :
            (reclass[r].pc = "loop" /\ reclass'[r].i = reclass[r].i + 1)
                => \A j \in DOMAIN store' :
                      store'[j].address = reclass[r].wallets[reclass[r].i].address
                          => store'[j].tier = reclass'[r].newTier ]_vars


RoleVars == <<owner, pendingOwner, updater>>

(* C31: role separation: a call sent by an address that holds only the      *)
(* updater role (it is neither the owner nor the pending candidate) leaves  *)
(* owner, pendingOwner and updater as they were, whatever the call; the     *)
(* updater changes only in a successful setUpdater call of the owner.       *)
C31_RoleSeparation ==
    [][ /\ (/\ lastCall'.sender = updater
            /\ updater # owner
            /\ updater # pendingOwner) => UNCHANGED RoleVars
        /\ updater' # updater => lastCall' = Call("setUpdater", owner, "none") ]_vars

(* The updater, who is neither owner nor candidate, has just tried to       *)
(* install another updater while a transfer was pending.                    *)
C31_Witness ==
    /\ lastCall = Call("setUpdater", updater, "NotOwner")
    /\ updater # owner
    /\ updater # pendingOwner
    /\ pendingOwner # ZERO_ADDRESS


(* Requests of ip that passed the limiter at an instant in lo .. hi. *)
RECURSIVE PassedUpTo(_, _, _, _)
PassedUpTo(ip, lo, hi, k) ==
    IF k = 0 THEN 0
    ELSE PassedUpTo(ip, lo, hi, k - 1)
         + (IF responses[k].ip = ip /\ responses[k].at \in lo .. hi
            THEN responses[k].passed ELSE 0)

PassedIn(ip, lo, hi) == PassedUpTo(ip, lo, hi, Len(responses))

(* The latest arrival, of ip: every request either passed or got 429. *)
Arrived(ip) == responses' # responses /\ responses'[Len(responses')].ip = ip

(* The most requests of ip that passed within a 60-second interval: an     *)
(* interval that holds the most begins at the instant of an arrival.        *)
PassedInSixtySeconds(ip) ==
    {PassedIn(ip, responses[k].at, responses[k].at + TIER_WINDOW - 1) :
        k \in DOMAIN responses}

(* C32 as stated: at most 100 requests of one IP pass within any 60-second  *)
(* interval, and requests of an IP are accepted again once 60 seconds have  *)
(* passed since its window started.                                         *)
C32_AsStated ==
    /\ [](\A ip \in Ips : \A n \in PassedInSixtySeconds(ip) : n <= TIER_MAX_REQUESTS)
    /\ [][ \A ip \in DOMAIN requestCounts :
              (Arrived(ip) /\ now >= requestCounts[ip].resetTime)
                  => responses'[Len(responses')].passed >= 1 ]_vars

(* C32, amended: the limiter counts in fixed windows.  The window of an IP  *)
(* starts with its first request after the previous window and lasts until  *)
(* resetTime, 60 seconds later, inclusive; at most 100 requests pass in a   *)
(* window and the others get 429; within any 60-second interval at most 200 *)
(* pass; requests are accepted again once more than 60 seconds have passed  *)
(* since the window started; an arrival leaves the entries of the other IPs *)
(* as they were.                                                            *)
C32_FixedWindow ==
    /\ [](/\ \A ip \in DOMAIN requestCounts :
                /\ requestCounts[ip].count \in 1 .. TIER_MAX_REQUESTS
                /\ PassedIn(ip, requestCounts[ip].resetTime - TIER_WINDOW,
                                requestCounts[ip].resetTime)
                      = requestCounts[ip].count
          /\ \A ip \in Ips :
                \A n \in PassedInSixtySeconds(ip) : n <= 2 * TIER_MAX_REQUESTS)
    /\ [][ \A ip \in Ips :
              Arrived(ip) =>
                 /\ (ip \in DOMAIN requestCounts /\ now <= requestCounts[ip].resetTime)
                       => responses'[Len(responses')].passed
                             = (IF TIER_MAX_REQUESTS - requestCounts[ip].count
                                      < responses'[Len(responses')].requests
                                THEN TIER_MAX_REQUESTS - requestCounts[ip].count
                                ELSE responses'[Len(responses')].requests)
                 /\ (ip \notin DOMAIN requestCounts \/ now > requestCounts[ip].resetTime)
                       => responses'[Len(responses')].passed
                             = responses'[Len(responses')].requests
                 /\ \A other \in DOMAIN requestCounts \ {ip} :
                       /\ other \in DOMAIN requestCounts'
                       /\ requestCounts'[other] = requestCounts[other] ]_vars

(* One IP: a request opened the window, the 100 that came 59 seconds later  *)
(* filled it (one got 429), and 100 more passed in the next window, two     *)
(* seconds after that.                                                      *)
C32_Witness ==
    /\ Len(responses) = 3
    /\ \E ip \in Ips :
          /\ responses[1] = [ip |-> ip, at |-> 0, requests |-> 1, passed |-> 1]
          /\ responses[2] = [ip |-> ip, at |-> TIER_WINDOW - 1,
                             requests |-> TIER_MAX_REQUESTS,
                             passed |-> TIER_MAX_REQUESTS - 1]
          /\ responses[3] = [ip |-> ip, at |-> TIER_WINDOW + 1,
                             requests |-> TIER_MAX_REQUESTS,
                             passed |-> TIER_MAX_REQUESTS]


(* The tier column of the row of address in the Wallet table. *)
StoredTier(address) ==
    (CHOOSE row \in {store[j] : j \in DOMAIN store} : row.address = address).tier

(* C33: for each wallet a reclassifier run processes, the tier is written   *)
(* and the transition (wallet, oldTier, newTier) is logged exactly when the *)
(* computed tier differs from the stored tier; when they are equal nothing  *)
(* is written and no transition is logged; nothing but the tier column of   *)
(* that wallet's row changes.                                               *)
C33_WriteIffChanged ==
    [][ \A r \in DOMAIN reclass :
            (reclass[r].pc = "loop" /\ reclass'[r].i = reclass[r].i + 1) =>
                LET address == reclass[r].wallets[reclass[r].i].address
                    stored  == StoredTier(address)
                    newTier == reclass'[r].newTier
                    line    == reclass'[r].log[Len(reclass'[r].log)]
                IN  /\ store' = walletUpdate(store, address, newTier)
                    /\ Len(reclass'[r].log) = Len(reclass[r].log) + 1
                    /\ IF newTier # stored
                       THEN line = <<"transition", address, stored, newTier>>
                       ELSE line[1] = "unchanged" /\ store' = store ]_vars


(* The spans, first to fifth, of the windows of five consecutive            *)
(* transactions.                                                            *)
WindowSpans ==
    {History_[i + 4].timestamp - History_[i].timestamp :
        i \in {j \in DOMAIN History_ : j + 4 \in DOMAIN History_}}

NotFlipHeavy  == FlipCount < 5
NotSuspicious == 10 * SuspiciousCount <= 3 * TxCount
NotImpulsive  == \A span \in WindowSpans : span >= 60 * 60

(* C34: boundary values follow the documented operators: 5 flips exclude    *)
(* and 4 alone do not; a suspicious ratio of exactly 3 in 10 does not       *)
(* exclude and any ratio above does; five consecutive transactions spanning *)
(* exactly 60 minutes are not impulsive and any shorter span is; an account *)
(* age of exactly 7, 14 or 90 days satisfies the age requirement of tier 2, *)
(* 3 or 4.                                                                  *)
C34_BoundaryValues ==
    (classified.done /\ TxCount >= 1) =>
        /\ FlipCount = 5 => classified.tier = 1
        /\ (FlipCount = 4 /\ NotSuspicious /\ NotImpulsive) => classified.tier # 1
        /\ 10 * SuspiciousCount > 3 * TxCount => classified.tier = 1
        /\ (10 * SuspiciousCount = 3 * TxCount /\ NotFlipHeavy /\ NotImpulsive)
              => classified.tier # 1
        /\ (\E span \in WindowSpans : span < 60 * 60) => classified.tier = 1
        /\ (60 * 60 \in WindowSpans /\ NotImpulsive /\ NotFlipHeavy /\ NotSuspicious)
              => classified.tier # 1
        /\ (~Excluded /\ AccountAge = Days(7) /\ TxCount >= 3)
              => classified.tier >= 2
        /\ (~Excluded /\ AccountAge = Days(14) /\ TxCount >= 10
              /\ Cardinality(Trailing(Days(14))) >= 3
              /\ SpanOf(Trailing(Days(14))) >= Days(7))
              => classified.tier >= 3
        /\ (~Excluded /\ AccountAge = Days(90) /\ TxCount >= 30
              /\ Cardinality(Trailing(Days(14))) >= 3
              /\ SpanOf(Trailing(Days(14))) >= Days(7)
              /\ SpanOf(Trailing(Days(90))) >= Days(45)
              /\ checkNotBursty(History_, Days(90), now))
              => classified.tier = 4

(* Four flips, three suspicious transactions in ten, every window of five   *)
(* spanning exactly 60 minutes, an account exactly 7 days old: tier 2.      *)
C34_Witness ==
    /\ classified.done
    /\ FlipCount = 4
    /\ SuspiciousCount = 3 /\ TxCount = 10
    /\ WindowSpans = {60 * 60}
    /\ AccountAge = Days(7)
    /\ classified.tier = 2


(* The batches one after the other. *)
RECURSIVE Concat(_)
Concat(seqs) == IF seqs = <<>> THEN <<>> ELSE Concat(SubSeq(seqs, 1, Len(seqs) - 1)) \o seqs[Len(seqs)]

(* The results have been split: the signer is connected and the loop over   *)
(* the batches has its index.                                               *)
Split == sync.k >= 1

(* C35: the batches of the synchronizer are the (address, tier) pairs, each *)
(* exactly once and in list order; every batch is non-empty and has at most *)
(* BATCH_SIZE = 50 entries, fewer than the contract's limit of 200; only    *)
(* the last batch may be shorter; an empty list yields no batch and nothing *)
(* is submitted on chain.                                                   *)
C35_Partition ==
    /\ BATCH_SIZE = 50 /\ BATCH_SIZE < MAX_BATCH
    /\ Split =>
          /\ Concat(sync.batches) = sync.results
          /\ \A c \in DOMAIN sync.batches :
                /\ Len(sync.batches[c]) \in 1 .. BATCH_SIZE
                /\ c < Len(sync.batches) => Len(sync.batches[c]) = BATCH_SIZE
          /\ sync.results = <<>> => sync.batches = <<>>
    /\ (sync.pc # "start" /\ sync.wallets = <<>>) => sent = <<>>

(* The pairs of the largest store have been split into two full batches and *)
(* a shorter last one, and the run is over.                                 *)
C35_Witness ==
    /\ sync.pc = "done"
    /\ Len(sync.results) = MaxStored
    /\ Len(sync.batches) = 3
    /\ Len(sync.batches[3]) = MaxStored - 2 * BATCH_SIZE


(* The entries of a batch that no later entry of the same wallet follows.   *)
LastOccurrences(b) ==
    {i \in DOMAIN b[1] : \A j \in DOMAIN b[1] : j > i => b[1][j] # b[1][i]}
WalletsOf(b) == {b[1][i] : i \in DOMAIN b[1]}

(* C36: after a successful setTierBatch every wallet in the batch holds the *)
(* tier of its last occurrence in the batch, and the tier of every wallet   *)
(* not in the batch, the owner, the pending owner and the updater are       *)
(* unchanged.                                                               *)
C36_BatchFrame ==
    [][ (lastCall'.fn = "setTierBatch" /\ lastCall'.err = "none") =>
          \A b \in BatchArgs :
              setTierBatch(lastCall'.sender, b[1], b[2]) =>
                  /\ \A i \in LastOccurrences(b) : tiers'[b[1][i]] = b[2][i]
                  /\ \A w \in Address \ WalletsOf(b) : tiers'[w] = tiers[w]
                  /\ owner' = owner
                  /\ pendingOwner' = pendingOwner
                  /\ updater' = updater ]_vars

(* An accepted batch has just written one wallet twice, the wallet holds    *)
(* the tier written last, and another wallet keeps the tier it had.         *)
C36_Witness ==
    /\ lastCall = Call("setTierBatch", updater, "none")
    /\ Len(emitted) = 2
    /\ emitted[1][2] = emitted[2][2]
    /\ emitted[1][4] # emitted[2][4]
    /\ tiers[emitted[2][2]] = emitted[2][4]
    /\ \E v \in Address \ {emitted[1][2]} : tiers[v] # 0


(* The tier events among the events of a call, in the order of emission.    *)
TierEvents(events) ==
    SelectSeq(events, LAMBDA e : e[1] \in {"TierUpdated", "TierDeleted"})

(* The tier an event reports as stored from then on.                        *)
NewTierOf(e) == IF e[1] = "TierDeleted" THEN 0 ELSE e[4]

(* The events applied one after the other to the tiers t; exact tells       *)
(* whether every event named the tier its wallet had at that point and      *)
(* stood for a change of it.                                                *)
RECURSIVE ReplayTierEvents(_, _)
ReplayTierEvents(t, events) ==
    IF events = <<>> THEN [exact |-> TRUE, tiers |-> t]
    ELSE LET e == Head(events)
         IN  IF e[3] = t[e[2]] /\ e[3] # NewTierOf(e)
             THEN ReplayTierEvents([t EXCEPT ![e[2]] = NewTierOf(e)], Tail(events))
             ELSE [exact |-> FALSE, tiers |-> t]

(* C37: the tier events are an exact log of the stored tiers: every tier is *)
(* 0 at deployment, and in every call the TierUpdated(wallet, old, new) and *)
(* TierDeleted(wallet, old) events it emits are, in order, exactly the      *)
(* changes of stored tiers it makes: old is the wallet's tier just before,  *)
(* old differs from new, and the events applied to the tiers before the     *)
(* call give the tiers after it (no change without an event, no event       *)
(* without a change), so the events replayed from deployment give the       *)
(* current tier of every wallet.                                            *)
C37_ExactEventLog ==
    /\ \A a \in Address : tiers[a] = 0
    /\ TierEvents(emitted) = <<>>
    /\ [][ ReplayTierEvents(tiers, TierEvents(emitted'))
              = [exact |-> TRUE, tiers |-> tiers'] ]_vars

(* An accepted batch has just moved one wallet twice: the second event      *)
(* names as old tier the tier the first one wrote.                          *)
C37_Witness ==
    /\ lastCall = Call("setTierBatch", updater, "none")
    /\ TierEvents(emitted) = emitted
    /\ Len(emitted) = 2
    /\ emitted[1][2] = emitted[2][2]
    /\ emitted[2][3] = emitted[1][4]
    /\ emitted[2][3] # emitted[1][3]


(* C38: within one classification the account age, the 14-day window, the   *)
(* 90-day window and the week check are evaluated against the same instant: *)
(* when the clock advances during the call, the tier returned is still      *)
(* classify(history, firstSeen, t) for one single instant t between the     *)
(* start and the end of the call.                                           *)
C38_SingleInstant ==
    [][ classified'.done =>
          \E t \in now .. now' :
              classified'.tier = classifyWallet(wallet, <<t, t, t, t>>) ]_vars


(* C39: a non-zero pendingOwner was set by a proposeOwner call of the       *)
(* current owner: nothing is pending after construction, a candidate        *)
(* becomes pending only in a successful proposeOwner call of the owner,     *)
(* which leaves the owner, and every change of the owner clears             *)
(* pendingOwner, so no proposal of a previous owner can be accepted after   *)
(* the ownership has changed.                                               *)
C39_PendingSetByOwner ==
    /\ pendingOwner = ZERO_ADDRESS
    /\ [][ /\ owner' # owner => pendingOwner' = ZERO_ADDRESS
           /\ (pendingOwner' # ZERO_ADDRESS /\ pendingOwner' # pendingOwner) =>
                 /\ lastCall' = Call("proposeOwner", owner, "none")
                 /\ owner' = owner ]_vars

(* The ownership has changed, nothing is pending, and an acceptOwnership    *)
(* call has just been refused.                                              *)
C39_Witness ==
    /\ owner # Deployer
    /\ pendingOwner = ZERO_ADDRESS
    /\ lastCall.fn = "acceptOwnership"
    /\ lastCall.err = "NotPendingOwner"

(* C40: the owner is never the zero address: it is the deployer after       *)
(* construction, and no sequence of setUpdater, proposeOwner,               *)
(* acceptOwnership and cancelOwnershipTransfer calls leaves the contract    *)
(* without an owner.                                                        *)
C40_OwnerNonZero ==
    /\ owner # ZERO_ADDRESS
    /\ lastCall.fn = "constructor" => owner = Deployer

(* The ownership has gone to another account and has just come back to the  *)
(* deployer.                                                                *)
C40_Witness ==
    /\ lastCall = Call("acceptOwnership", Deployer, "none")
    /\ owner = Deployer
    /\ emitted[1][1] = "OwnershipTransferred"
    /\ emitted[1][2] \notin {ZERO_ADDRESS, Deployer}


====
